---- MODULE Spec2Model ----
(***************************************************************************)
(* A model of the query expression tree of eocdb/core/query/query.py:      *)
(* the six node classes, their constructors, rendering (__str__),          *)
(* structural equality (__eq__), precedence and visitor dispatch (accept). *)
(*                                                                         *)
(* Python text is modelled as a sequence of one-character strings, so that *)
(* quoting, escaping and concatenation are computed character by           *)
(* character.  A Python scalar (str, bool, int, float, None) is a record   *)
(* [t, s, n]: its type name, its characters (str only) and its number      *)
(* (bool: 0/1, int: the integer, float: the value in tenths).              *)
(***************************************************************************)
EXTENDS Integers, Sequences, FiniteSets, TLC

VARIABLES stack, ret, buf

vars == <<stack, ret, buf>>

\* The outcome of a call, as ret holds it: the callable, its arguments,
\* whether it raised, and the value it returned.
Returned(call, args, value) ==
    [call |-> call, args |-> args, raised |-> FALSE, value |-> value]

Raised(call, args) ==
    [call |-> call, args |-> args, raised |-> TRUE, value |-> <<>>]

NoCall == Returned("none", <<>>, <<>>)

----------------------------------------------------------------------------
(* Bounds of the model.                                                    *)

\* Largest number of nodes the caller holds at once (all trees together).
MaxNodes == 5

\* Largest number of trees the caller holds at once.
MaxStack == 3

\* Longest text typed into the argument buffer.
MaxStrLen == 3

----------------------------------------------------------------------------
(* Python scalars.                                                         *)

PyNone == [t |-> "NoneType", s |-> <<>>, n |-> 0]

PyStr(chars) == [t |-> "str", s |-> chars, n |-> 0]

PyInt(i) == [t |-> "int", s |-> <<>>, n |-> i]

PyBool(b) == [t |-> "bool", s |-> <<>>, n |-> IF b THEN 1 ELSE 0]

\* A float with one decimal, given in tenths: PyFloat(15) is 1.5.
PyFloat(tenths) == [t |-> "float", s |-> <<>>, n |-> tenths]

isinstance_str(v) == v.t = "str"

is_None(v) == v.t = "NoneType"

\* bool(v), as used by `if self.name` and `if self.is_exclusive`.
truth(v) ==
    CASE v.t = "str" -> Len(v.s) > 0
      [] v.t = "NoneType" -> FALSE
      [] OTHER -> v.n # 0

\* The number a bool, int or float stands for, in tenths.
Tenths(v) == IF v.t = "float" THEN v.n ELSE 10 * v.n

\* v == w on scalars: text with text, None with None, numbers by value
\* across bool, int and float.
PyValueEq(v, w) ==
    CASE v.t = "str" /\ w.t = "str" -> v.s = w.s
      [] v.t = "NoneType" /\ w.t = "NoneType" -> TRUE
      [] v.t \in {"bool", "int", "float"} /\ w.t \in {"bool", "int", "float"} ->
            Tenths(v) = Tenths(w)
      [] OTHER -> FALSE

Digit(d) == <<"0", "1", "2", "3", "4", "5", "6", "7", "8", "9">>[d + 1]

RECURSIVE NatToText(_)
NatToText(i) == IF i < 10 THEN <<Digit(i)>>
                ELSE NatToText(i \div 10) \o <<Digit(i % 10)>>

IntToText(i) == IF i < 0 THEN <<"-">> \o NatToText(-i) ELSE NatToText(i)

FloatToText(tenths) ==
    IF tenths < 0
    THEN <<"-">> \o NatToText((-tenths) \div 10) \o <<".">> \o <<Digit((-tenths) % 10)>>
    ELSE NatToText(tenths \div 10) \o <<".">> \o <<Digit(tenths % 10)>>

\* str(v), which is also what an f-string substitutes for {v}.
PyStrOf(v) ==
    CASE v.t = "str" -> v.s
      [] v.t = "NoneType" -> <<"N", "o", "n", "e">>
      [] v.t = "bool" -> IF v.n = 1 THEN <<"T", "r", "u", "e">>
                         ELSE <<"F", "a", "l", "s", "e">>
      [] v.t = "int" -> IntToText(v.n)
      [] v.t = "float" -> FloatToText(v.n)

\* s.replace('"', '\\"')
RECURSIVE replace_quote(_)
replace_quote(s) ==
    IF s = <<>> THEN <<>>
    ELSE (IF Head(s) = "\"" THEN <<"\\", "\"">> ELSE <<Head(s)>>)
         \o replace_quote(Tail(s))

\* sep.join(parts)
RECURSIVE join(_, _)
join(sep, parts) ==
    IF parts = <<>> THEN <<>>
    ELSE IF Len(parts) = 1 THEN parts[1]
    ELSE parts[1] \o sep \o join(sep, Tail(parts))

\* c.isspace() for the characters of the model's alphabet.
isspace(c) == c \in {" ", "\t", "\n", "\r"}

----------------------------------------------------------------------------
(* Module constants of query.py.                                           *)

KW_AND == <<"A", "N", "D">>
KW_OR == <<"O", "R">>
KW_NOT == <<"N", "O", "T">>
KEYWORDS == {KW_AND, KW_OR, KW_NOT}

OP_INCLUDE == <<"+">>
OP_EXCLUDE == <<"-">>
OPERATORS == {OP_INCLUDE, OP_EXCLUDE}

----------------------------------------------------------------------------
(* The node classes: constructors.                                         *)

\* PhraseQuery.__init__: self.terms = tuple(terms)
PhraseQuery(terms) == [kind |-> "PhraseQuery", terms |-> terms]

\* BinaryOpQuery.__init__
BinaryOpQuery(op, term1, term2) ==
    [kind |-> "BinaryOpQuery", op |-> op, term1 |-> term1, term2 |-> term2]

\* UnaryOpQuery.__init__
UnaryOpQuery(op, term) == [kind |-> "UnaryOpQuery", op |-> op, term |-> term]

\* FieldValueQuery.__init__
FieldValueQuery(name, value) ==
    [kind |-> "FieldValueQuery", name |-> name, value |-> value]

\* FieldWildcardQuery.__init__ raises when its assert fails.
FieldWildcardQuery_raises(name, value) == ~ isinstance_str(value)

FieldWildcardQuery(name, value) ==
    [kind |-> "FieldWildcardQuery", name |-> name, value |-> value]

\* The assert of FieldRangeQuery.__init__ with `or` for `and`.
FieldRangeQuery_raises_Mut(name, start_value, end_value, is_exclusive) ==
    is_None(start_value) \/ is_None(end_value)

\* FieldRangeQuery.__init__ raises when its assert fails.
FieldRangeQuery_raises(name, start_value, end_value, is_exclusive) ==
    is_None(start_value) /\ is_None(end_value)

FieldRangeQuery(name, start_value, end_value, is_exclusive) ==
    [kind |-> "FieldRangeQuery", name |-> name, start_value |-> start_value,
     end_value |-> end_value, is_exclusive |-> is_exclusive]

\* is_of_same_type testing for the common base class: a FieldWildcardQuery
\* counts as a FieldValueQuery.
is_of_same_type_Mut(self, other) ==
    \/ self.kind = other.kind
    \/ {self.kind, other.kind} = {"FieldValueQuery", "FieldWildcardQuery"}

\* type(self) is type(other)
is_of_same_type(self, other) == self.kind = other.kind

\* Number of nodes of a tree.
RECURSIVE Size(_)
RECURSIVE SizeAll(_)
SizeAll(ts) == IF ts = <<>> THEN 0 ELSE Size(Head(ts)) + SizeAll(Tail(ts))

Size(q) ==
    CASE q.kind = "PhraseQuery" -> 1 + SizeAll(q.terms)
      [] q.kind = "BinaryOpQuery" -> 1 + Size(q.term1) + Size(q.term2)
      [] q.kind = "UnaryOpQuery" -> 1 + Size(q.term)
      [] OTHER -> 1

----------------------------------------------------------------------------
(* op_precedence                                                           *)

PhraseQuery_op_precedence(self) == 400

\* BinaryOpQuery.op_precedence testing for AND where the code tests for OR.
BinaryOpQuery_op_precedence_Mut(self) == IF self.op = KW_AND THEN 500 ELSE 600

BinaryOpQuery_op_precedence(self) == IF self.op = KW_OR THEN 500 ELSE 600

UnaryOpQuery_op_precedence(self) == IF self.op = KW_NOT THEN 800 ELSE 900

FieldQuery_op_precedence(self) == 1000

op_precedence(q) ==
    CASE q.kind = "PhraseQuery" -> PhraseQuery_op_precedence(q)
      [] q.kind = "BinaryOpQuery" -> BinaryOpQuery_op_precedence(q)
      [] q.kind = "UnaryOpQuery" -> UnaryOpQuery_op_precedence(q)
      [] OTHER -> FieldQuery_op_precedence(q)

----------------------------------------------------------------------------
(* __str__                                                                 *)

\* The characters that force a text value into quotes.
ReservedChars == {" ", "+", "-", "&", "|", "!", "(", ")", "{", "}", "[", "]",
                  "^", "\"", "~", "*", "?", ":", "\\"}

\* FieldValueQuery.is_text testing `value is not None` where the code tests
\* isinstance(value, str).
FieldValueQuery_is_text_Mut(self) == ~ is_None(self.value)

FieldValueQuery_is_text(self) == isinstance_str(self.value)

\* FieldValueQuery._is_quoted_text with the backslash missing from its list
\* of characters.
FieldValueQuery_is_quoted_text_Mut(self) ==
    FieldValueQuery_is_text(self)
    /\ \E i \in 1..Len(self.value.s) : self.value.s[i] \in ReservedChars \ {"\\"}

FieldValueQuery_is_quoted_text(self) ==
    FieldValueQuery_is_text(self)
    /\ \E i \in 1..Len(self.value.s) : self.value.s[i] \in ReservedChars

\* FieldWildcardQuery without its own _is_quoted_text: the inherited one runs.
FieldWildcardQuery_is_quoted_text_Mut(self) == FieldValueQuery_is_quoted_text(self)

FieldWildcardQuery_is_quoted_text(self) == FALSE

\* self._is_quoted_text(), dispatched on the class of self.
is_quoted_text(self) ==
    IF self.kind = "FieldWildcardQuery" THEN FieldWildcardQuery_is_quoted_text(self)
    ELSE FieldValueQuery_is_quoted_text(self)

FieldValueQuery_value_to_str(self) ==
    IF is_quoted_text(self)
    THEN <<"\"">> \o replace_quote(self.value.s) \o <<"\"">>
    ELSE PyStrOf(self.value)

FieldRangeQuery_value_to_str(self) ==
    LET v == PyStrOf(self.start_value) \o <<" ", "T", "O", " ">> \o PyStrOf(self.end_value)
    IN IF self.is_exclusive THEN <<"{">> \o v \o <<"}">>
       ELSE <<"[">> \o v \o <<"]">>

value_to_str(self) ==
    IF self.kind = "FieldRangeQuery" THEN FieldRangeQuery_value_to_str(self)
    ELSE FieldValueQuery_value_to_str(self)

FieldQuery_str(self) ==
    LET value == value_to_str(self)
    IN IF truth(self.name) THEN PyStrOf(self.name) \o <<":">> \o value ELSE value

RECURSIVE Query_str(_)

\* PhraseQuery.__str__ joining its terms with nothing in between.
PhraseQuery_str_Mut(self) ==
    join(<<>>, [i \in 1..Len(self.terms) |-> Query_str(self.terms[i])])

PhraseQuery_str(self) ==
    join(<<" ">>, [i \in 1..Len(self.terms) |-> Query_str(self.terms[i])])

\* BinaryOpQuery.__str__ comparing with < : operands of higher precedence
\* get the parentheses.
BinaryOpQuery_str_MutReversed(self) ==
    LET t1 == Query_str(self.term1)
        t2 == Query_str(self.term2)
        p1 == IF op_precedence(self) < op_precedence(self.term1)
              THEN <<"(">> \o t1 \o <<")">> ELSE t1
        p2 == IF op_precedence(self) < op_precedence(self.term2)
              THEN <<"(">> \o t2 \o <<")">> ELSE t2
    IN p1 \o <<" ">> \o self.op \o <<" ">> \o p2

\* BinaryOpQuery.__str__ comparing with >= : operands of equal precedence
\* get parentheses too.
BinaryOpQuery_str_Mut(self) ==
    LET t1 == Query_str(self.term1)
        t2 == Query_str(self.term2)
        p1 == IF op_precedence(self) >= op_precedence(self.term1)
              THEN <<"(">> \o t1 \o <<")">> ELSE t1
        p2 == IF op_precedence(self) >= op_precedence(self.term2)
              THEN <<"(">> \o t2 \o <<")">> ELSE t2
    IN p1 \o <<" ">> \o self.op \o <<" ">> \o p2

BinaryOpQuery_str(self) ==
    LET t1 == Query_str(self.term1)
        t2 == Query_str(self.term2)
        p1 == IF op_precedence(self) > op_precedence(self.term1)
              THEN <<"(">> \o t1 \o <<")">> ELSE t1
        p2 == IF op_precedence(self) > op_precedence(self.term2)
              THEN <<"(">> \o t2 \o <<")">> ELSE t2
    IN p1 \o <<" ">> \o self.op \o <<" ">> \o p2

\* UnaryOpQuery.__str__ never putting a space after the operator.
UnaryOpQuery_str_Mut(self) ==
    LET t == Query_str(self.term)
        term == IF op_precedence(self) > op_precedence(self.term)
                THEN <<"(">> \o t \o <<")">> ELSE t
    IN self.op \o term

UnaryOpQuery_str(self) ==
    LET t == Query_str(self.term)
        term == IF op_precedence(self) > op_precedence(self.term)
                THEN <<"(">> \o t \o <<")">> ELSE t
    IN IF self.op \in KEYWORDS THEN self.op \o <<" ">> \o term
       ELSE self.op \o term

\* str(q), dispatched on the class of q.
Query_str(q) ==
    CASE q.kind = "PhraseQuery" -> PhraseQuery_str(q)
      [] q.kind = "BinaryOpQuery" -> BinaryOpQuery_str(q)
      [] q.kind = "UnaryOpQuery" -> UnaryOpQuery_str(q)
      [] OTHER -> FieldQuery_str(q)

\* Of the scalar kinds only text can be iterated over and has a replace
\* method: map(..., value) and value.replace(...) raise on the others.
is_iterable(v) == v.t = "str"

has_replace(v) == v.t = "str"

\* FieldValueQuery._is_quoted_text raises when is_text lets through a value
\* that any(map(...)) cannot iterate over.
FieldValueQuery_is_quoted_text_raises(self) ==
    FieldValueQuery_is_text(self) /\ ~ is_iterable(self.value)

\* FieldValueQuery.value_to_str raises when _is_quoted_text does, or when it
\* reaches self.value.replace with a value that has no such method.
FieldValueQuery_value_to_str_raises(self) ==
    IF self.kind = "FieldWildcardQuery" THEN FALSE
    ELSE \/ FieldValueQuery_is_quoted_text_raises(self)
         \/ FieldValueQuery_is_quoted_text(self) /\ ~ has_replace(self.value)

\* str(q) raises when the rendering of one of its nodes does; the f-strings,
\* join and op_precedence of the other classes accept every node.
RECURSIVE Query_str_raises(_)
Query_str_raises(q) ==
    CASE q.kind = "PhraseQuery" ->
            \E i \in 1..Len(q.terms) : Query_str_raises(q.terms[i])
      [] q.kind = "BinaryOpQuery" ->
            Query_str_raises(q.term1) \/ Query_str_raises(q.term2)
      [] q.kind = "UnaryOpQuery" -> Query_str_raises(q.term)
      [] q.kind = "FieldRangeQuery" -> FALSE
      [] OTHER -> FieldValueQuery_value_to_str_raises(q)

----------------------------------------------------------------------------
(* __repr__                                                                *)

\* repr(v) of a scalar; for a text, Python's own quoting of a text without
\* quote characters or escapes.
PyReprOf(v) ==
    IF v.t = "str" THEN <<"'">> \o v.s \o <<"'">> ELSE PyStrOf(v)

\* type(self).__name__
type_name(self) ==
    CASE self.kind = "PhraseQuery" -> <<"P", "h", "r", "a", "s", "e", "Q", "u", "e", "r", "y">>
      [] self.kind = "BinaryOpQuery" -> <<"B", "i", "n", "a", "r", "y", "O", "p", "Q", "u", "e", "r", "y">>
      [] self.kind = "UnaryOpQuery" -> <<"U", "n", "a", "r", "y", "O", "p", "Q", "u", "e", "r", "y">>
      [] self.kind = "FieldValueQuery" -> <<"F", "i", "e", "l", "d", "V", "a", "l", "u", "e", "Q", "u", "e", "r", "y">>
      [] self.kind = "FieldWildcardQuery" -> <<"F", "i", "e", "l", "d", "W", "i", "l", "d", "c", "a", "r", "d", "Q", "u", "e", "r", "y">>
      [] self.kind = "FieldRangeQuery" -> <<"F", "i", "e", "l", "d", "R", "a", "n", "g", "e", "Q", "u", "e", "r", "y">>

FieldValueQuery_value_args_to_repr(self) ==
    IF isinstance_str(self.value)
    THEN <<"\"">> \o replace_quote(self.value.s) \o <<"\"">>
    ELSE PyReprOf(self.value)

FieldRangeQuery_value_args_to_repr(self) ==
    LET args == PyStrOf(self.start_value) \o <<",", " ">> \o PyStrOf(self.end_value)
    IN IF self.is_exclusive
       THEN args \o <<",", " ", "i", "s", "_", "e", "x", "c", "l", "u", "s", "i", "v", "e", "=">> \o PyStrOf(PyBool(self.is_exclusive))
       ELSE args

\* self.value_args_to_repr(), dispatched on the class of self.
value_args_to_repr(self) ==
    IF self.kind = "FieldRangeQuery" THEN FieldRangeQuery_value_args_to_repr(self)
    ELSE FieldValueQuery_value_args_to_repr(self)

FieldQuery_args_to_repr(self) ==
    LET args == value_args_to_repr(self)
    IN IF truth(self.name)
       THEN <<"\"">> \o PyStrOf(self.name) \o <<"\"", ",", " ">> \o args
       ELSE <<"N", "o", "n", "e", ",", " ">> \o args

RECURSIVE Query_repr(_)

PhraseQuery_args_to_repr(self) ==
    LET args == join(<<",", " ">>, [i \in 1..Len(self.terms) |-> Query_repr(self.terms[i])])
    IN <<"[">> \o args \o <<"]">>

BinaryOpQuery_args_to_repr(self) ==
    LET t1 == Query_repr(self.term1)
        t2 == Query_repr(self.term2)
    IN <<"\"">> \o self.op \o <<"\"", ",", " ">> \o t1 \o <<",", " ">> \o t2

UnaryOpQuery_args_to_repr(self) ==
    <<"\"">> \o self.op \o <<"\"", ",", " ">> \o Query_repr(self.term)

\* self.args_to_repr(), dispatched on the class of self.
args_to_repr(self) ==
    CASE self.kind = "PhraseQuery" -> PhraseQuery_args_to_repr(self)
      [] self.kind = "BinaryOpQuery" -> BinaryOpQuery_args_to_repr(self)
      [] self.kind = "UnaryOpQuery" -> UnaryOpQuery_args_to_repr(self)
      [] OTHER -> FieldQuery_args_to_repr(self)

\* repr(q): Query.__repr__
Query_repr(q) == type_name(q) \o <<"(">> \o args_to_repr(q) \o <<")">>

----------------------------------------------------------------------------
(* __eq__                                                                  *)

RECURSIVE Query_eq(_, _)

\* self.terms == other.terms on tuples: same length, items pairwise ==.
\* x is y. The nodes of the model are values: a node that carries an id
\* stands for the object of that identity, and a node without one (every node
\* a constructor of the model returns) is an object of its own.
is_identical(x, y) ==
    /\ "id" \in DOMAIN x \cap DOMAIN y
    /\ x.id = y.id

\* The comparison of tuples takes an item that is the same object on both
\* sides as equal without calling its __eq__.
tuple_eq(ts, us) ==
    /\ Len(ts) = Len(us)
    /\ \A i \in 1..Len(ts) : is_identical(ts[i], us[i]) \/ Query_eq(ts[i], us[i])

PhraseQuery_eq(self, other) ==
    is_of_same_type(self, other) /\ tuple_eq(self.terms, other.terms)

BinaryOpQuery_eq(self, other) ==
    /\ is_of_same_type(self, other)
    /\ self.op = other.op
    /\ Query_eq(self.term1, other.term1)
    /\ Query_eq(self.term2, other.term2)

UnaryOpQuery_eq(self, other) ==
    /\ is_of_same_type(self, other)
    /\ self.op = other.op
    /\ Query_eq(self.term, other.term)

FieldValueQuery_eq(self, other) ==
    /\ is_of_same_type(self, other)
    /\ PyValueEq(self.name, other.name)
    /\ PyValueEq(self.value, other.value)

\* FieldRangeQuery.__eq__ without the comparison of is_exclusive.
FieldRangeQuery_eq_Mut(self, other) ==
    /\ is_of_same_type(self, other)
    /\ PyValueEq(self.name, other.name)
    /\ PyValueEq(self.start_value, other.start_value)
    /\ PyValueEq(self.end_value, other.end_value)

FieldRangeQuery_eq(self, other) ==
    /\ is_of_same_type(self, other)
    /\ PyValueEq(self.name, other.name)
    /\ PyValueEq(self.start_value, other.start_value)
    /\ PyValueEq(self.end_value, other.end_value)
    /\ self.is_exclusive = other.is_exclusive

\* self.__eq__(other), dispatched on the class of self.
dunder_eq(self, other) ==
    CASE self.kind = "PhraseQuery" -> PhraseQuery_eq(self, other)
      [] self.kind = "BinaryOpQuery" -> BinaryOpQuery_eq(self, other)
      [] self.kind = "UnaryOpQuery" -> UnaryOpQuery_eq(self, other)
      [] self.kind = "FieldRangeQuery" -> FieldRangeQuery_eq(self, other)
      [] OTHER -> FieldValueQuery_eq(self, other)

\* a == b: Python asks the right operand first when its class is a proper
\* subclass of the left operand's class (FieldWildcardQuery under
\* FieldValueQuery), and the left operand otherwise.
Query_eq(a, b) ==
    IF a.kind = "FieldValueQuery" /\ b.kind = "FieldWildcardQuery"
    THEN dunder_eq(b, a)
    ELSE dunder_eq(a, b)

RECURSIVE Query_eq_raises(_, _)

\* Each __eq__ reads, after is_of_same_type, an attribute of self and then the
\* same attribute of other, compares the two, and goes on to the next
\* attribute only when they were equal (`and`). A read raises when the object
\* lacks the attribute; the comparison of two nodes raises when theirs does.

\* The comparison of the tuples compares the items pair by pair up to the
\* first unequal pair, whatever the lengths, and skips the __eq__ of a pair
\* that is one object.
PhraseQuery_eq_raises(self, other) ==
    /\ is_of_same_type(self, other)
    /\ IF "terms" \notin DOMAIN self \cap DOMAIN other THEN TRUE
       ELSE \E i \in 1..Len(self.terms) :
               /\ i <= Len(other.terms)
               /\ \A j \in 1..(i - 1) :
                     \/ is_identical(self.terms[j], other.terms[j])
                     \/ Query_eq(self.terms[j], other.terms[j])
               /\ ~ is_identical(self.terms[i], other.terms[i])
               /\ Query_eq_raises(self.terms[i], other.terms[i])

BinaryOpQuery_eq_raises(self, other) ==
    /\ is_of_same_type(self, other)
    /\ IF "op" \notin DOMAIN self \cap DOMAIN other THEN TRUE
       ELSE /\ self.op = other.op
            /\ IF "term1" \notin DOMAIN self \cap DOMAIN other THEN TRUE
               ELSE IF Query_eq_raises(self.term1, other.term1) THEN TRUE
               ELSE /\ Query_eq(self.term1, other.term1)
                    /\ IF "term2" \notin DOMAIN self \cap DOMAIN other THEN TRUE
                       ELSE Query_eq_raises(self.term2, other.term2)

UnaryOpQuery_eq_raises(self, other) ==
    /\ is_of_same_type(self, other)
    /\ IF "op" \notin DOMAIN self \cap DOMAIN other THEN TRUE
       ELSE /\ self.op = other.op
            /\ IF "term" \notin DOMAIN self \cap DOMAIN other THEN TRUE
               ELSE Query_eq_raises(self.term, other.term)

FieldValueQuery_eq_raises(self, other) ==
    /\ is_of_same_type(self, other)
    /\ IF "name" \notin DOMAIN self \cap DOMAIN other THEN TRUE
       ELSE /\ PyValueEq(self.name, other.name)
            /\ "value" \notin DOMAIN self \cap DOMAIN other

FieldRangeQuery_eq_raises(self, other) ==
    /\ is_of_same_type(self, other)
    /\ IF "name" \notin DOMAIN self \cap DOMAIN other THEN TRUE
       ELSE /\ PyValueEq(self.name, other.name)
            /\ IF "start_value" \notin DOMAIN self \cap DOMAIN other THEN TRUE
               ELSE /\ PyValueEq(self.start_value, other.start_value)
                    /\ IF "end_value" \notin DOMAIN self \cap DOMAIN other THEN TRUE
                       ELSE /\ PyValueEq(self.end_value, other.end_value)
                            /\ "is_exclusive" \notin DOMAIN self \cap DOMAIN other

\* self.__eq__(other) raises, dispatched on the class of self.
dunder_eq_raises(self, other) ==
    CASE self.kind = "PhraseQuery" -> PhraseQuery_eq_raises(self, other)
      [] self.kind = "BinaryOpQuery" -> BinaryOpQuery_eq_raises(self, other)
      [] self.kind = "UnaryOpQuery" -> UnaryOpQuery_eq_raises(self, other)
      [] self.kind = "FieldRangeQuery" -> FieldRangeQuery_eq_raises(self, other)
      [] OTHER -> FieldValueQuery_eq_raises(self, other)

\* a == b raises when the __eq__ that Python calls does.
Query_eq_raises(a, b) ==
    IF a.kind = "FieldValueQuery" /\ b.kind = "FieldWildcardQuery"
    THEN dunder_eq_raises(b, a)
    ELSE dunder_eq_raises(a, b)

----------------------------------------------------------------------------
(* is_wildcard_text                                                        *)

\* The loop of is_wildcard_text from index i on, with its two flags.
RECURSIVE is_wildcard_text_loop(_, _, _, _)
is_wildcard_text_loop(value, i, escape, wildcard_char_seen) ==
    IF i > Len(value) THEN wildcard_char_seen
    ELSE LET c == value[i]
         IN IF c = "\\"
            THEN is_wildcard_text_loop(value, i + 1, TRUE, wildcard_char_seen)
            ELSE IF (~ escape /\ c = "?") \/ c = "*"
            THEN is_wildcard_text_loop(value, i + 1, escape, TRUE)
            ELSE IF ~ escape /\ isspace(c)
            THEN FALSE
            ELSE is_wildcard_text_loop(value, i + 1, FALSE, wildcard_char_seen)

is_wildcard_text(value) ==
    IF ~ isinstance_str(value) THEN FALSE
    ELSE is_wildcard_text_loop(value.s, 1, FALSE, FALSE)

----------------------------------------------------------------------------
(* accept, with a visitor that records every call made to it and returns   *)
(* the number of the call as its result.  A visit is a record [log, value]: *)
(* the visitor's record after the call and the value returned.             *)

visit(log, method, qt, args) ==
    [log |-> Append(log, [method |-> method, qt |-> qt, args |-> args]),
     value |-> Len(log) + 1]

visit_phrase(log, qt, terms) == visit(log, "visit_phrase", qt, <<terms>>)

visit_binary_op(log, qt, term1, term2) ==
    visit(log, "visit_binary_op", qt, <<term1, term2>>)

visit_unary_op(log, qt, term) == visit(log, "visit_unary_op", qt, <<term>>)

visit_field_value(log, qt) == visit(log, "visit_field_value", qt, <<>>)

visit_field_range(log, qt) == visit(log, "visit_field_range", qt, <<>>)

visit_field_wildcard(log, qt) == visit(log, "visit_field_wildcard", qt, <<>>)

RECURSIVE Query_accept(_, _)

\* [term.accept(visitor) for term in terms]
RECURSIVE accept_each(_, _)
accept_each(terms, log) ==
    IF terms = <<>> THEN [log |-> log, value |-> <<>>]
    ELSE LET first == Query_accept(Head(terms), log)
             rest == accept_each(Tail(terms), first.log)
         IN [log |-> rest.log, value |-> <<first.value>> \o rest.value]

\* PhraseQuery.accept dropping the result of the first term.
PhraseQuery_accept_Mut(self, log) ==
    LET terms == accept_each(self.terms, log)
    IN visit_phrase(terms.log, self,
                    IF terms.value = <<>> THEN <<>> ELSE Tail(terms.value))

PhraseQuery_accept(self, log) ==
    LET terms == accept_each(self.terms, log)
    IN visit_phrase(terms.log, self, terms.value)

\* BinaryOpQuery.accept visiting term2 before term1.
BinaryOpQuery_accept_Mut(self, log) ==
    LET r2 == Query_accept(self.term2, log)
        r1 == Query_accept(self.term1, r2.log)
    IN visit_binary_op(r1.log, self, r1.value, r2.value)

BinaryOpQuery_accept(self, log) ==
    LET r1 == Query_accept(self.term1, log)
        r2 == Query_accept(self.term2, r1.log)
    IN visit_binary_op(r2.log, self, r1.value, r2.value)

UnaryOpQuery_accept(self, log) ==
    LET r == Query_accept(self.term, log)
    IN visit_unary_op(r.log, self, r.value)

FieldValueQuery_accept(self, log) == visit_field_value(log, self)

\* FieldWildcardQuery without its own accept: the inherited one runs.
FieldWildcardQuery_accept_Mut(self, log) == visit_field_value(log, self)

FieldWildcardQuery_accept(self, log) == visit_field_wildcard(log, self)

FieldRangeQuery_accept(self, log) == visit_field_range(log, self)

\* q.accept(visitor), dispatched on the class of q.
Query_accept(q, log) ==
    CASE q.kind = "PhraseQuery" -> PhraseQuery_accept(q, log)
      [] q.kind = "BinaryOpQuery" -> BinaryOpQuery_accept(q, log)
      [] q.kind = "UnaryOpQuery" -> UnaryOpQuery_accept(q, log)
      [] q.kind = "FieldValueQuery" -> FieldValueQuery_accept(q, log)
      [] q.kind = "FieldWildcardQuery" -> FieldWildcardQuery_accept(q, log)
      [] q.kind = "FieldRangeQuery" -> FieldRangeQuery_accept(q, log)

----------------------------------------------------------------------------
(* The caller.  stack holds the trees the caller has built and not yet     *)
(* handed to a parent node; ret is the outcome of the last call: the       *)
(* callable, its arguments, whether it raised, and the value returned;     *)
(* buf is a text the caller has typed to pass as an argument.              *)

NodesHeld == SizeAll(stack)

Top == stack[Len(stack)]

Below == stack[Len(stack) - 1]

\* The caller's stack without its last k trees.
Popped(k) == SubSeq(stack, 1, Len(stack) - k)

\* The last k trees of the caller's stack, in the order they were built.
Last(k) == SubSeq(stack, Len(stack) - k + 1, Len(stack))

\* FieldValueQuery(name, value)
NewFieldValue(call, name, value) ==
    /\ Len(stack) < MaxStack
    /\ stack' = Append(stack, FieldValueQuery(name, value))
    /\ ret' = Returned(call, <<name, value>>, FieldValueQuery(name, value))
    /\ UNCHANGED buf

\* FieldWildcardQuery(name, value)
NewFieldWildcard(call, name, value) ==
    /\ Len(stack) < MaxStack
    /\ IF FieldWildcardQuery_raises(name, value)
       THEN /\ ret' = Raised(call, <<name, value>>)
            /\ UNCHANGED stack
       ELSE /\ stack' = Append(stack, FieldWildcardQuery(name, value))
            /\ ret' = Returned(call, <<name, value>>, FieldWildcardQuery(name, value))
    /\ UNCHANGED buf

\* FieldRangeQuery(name, start_value, end_value, is_exclusive)
NewFieldRange(call, name, start_value, end_value, is_exclusive) ==
    /\ Len(stack) < MaxStack
    /\ LET args == <<name, start_value, end_value, is_exclusive>>
           node == FieldRangeQuery(name, start_value, end_value, is_exclusive)
       IN IF FieldRangeQuery_raises(name, start_value, end_value, is_exclusive)
          THEN /\ ret' = Raised(call, args)
               /\ UNCHANGED stack
          ELSE /\ stack' = Append(stack, node)
               /\ ret' = Returned(call, args, node)
    /\ UNCHANGED buf

\* UnaryOpQuery(op, term): term is the tree built last.
NewUnaryOp(call, op) ==
    /\ Len(stack) >= 1
    /\ stack' = Append(Popped(1), UnaryOpQuery(op, Top))
    /\ ret' = Returned(call, <<op, Top>>, UnaryOpQuery(op, Top))
    /\ UNCHANGED buf

\* BinaryOpQuery(op, term1, term2): term1 and term2 are the two trees built
\* last, in that order.
NewBinaryOp(call, op) ==
    /\ Len(stack) >= 2
    /\ stack' = Append(Popped(2), BinaryOpQuery(op, Below, Top))
    /\ ret' = Returned(call, <<op, Below, Top>>, BinaryOpQuery(op, Below, Top))
    /\ UNCHANGED buf

\* PhraseQuery(terms): the terms are the k trees built last, in that order.
NewPhrase(call, k) ==
    /\ k <= Len(stack)
    /\ Len(stack) - k < MaxStack
    /\ stack' = Append(Popped(k), PhraseQuery(Last(k)))
    /\ ret' = Returned(call, <<Last(k)>>, PhraseQuery(Last(k)))
    /\ UNCHANGED buf

\* The classmethods of QueryBuilder.
QueryBuilder_value(value, name) == NewFieldValue("QueryBuilder.value", name, value)

QueryBuilder_range(from_value, to_value, is_exclusive, name) ==
    NewFieldRange("QueryBuilder.range", name, from_value, to_value, is_exclusive)

QueryBuilder_wildcard(value, name) ==
    NewFieldWildcard("QueryBuilder.wildcard", name, value)

\* QueryBuilder.value(value): name takes its default.
QueryBuilder_value_default(value) ==
    NewFieldValue("QueryBuilder.value(value)", PyNone, value)

\* QueryBuilder.range(from_value, to_value): is_exclusive and name take
\* their defaults.
QueryBuilder_range_default(from_value, to_value) ==
    NewFieldRange("QueryBuilder.range(from_value, to_value)", PyNone,
                  from_value, to_value, FALSE)

\* QueryBuilder.wildcard(value): name takes its default.
QueryBuilder_wildcard_default(value) ==
    NewFieldWildcard("QueryBuilder.wildcard(value)", PyNone, value)

QueryBuilder_include == NewUnaryOp("QueryBuilder.include", <<"+">>)

\* QueryBuilder.exclude wrapping its argument in '+'.
QueryBuilder_exclude_Mut == NewUnaryOp("QueryBuilder.exclude", <<"+">>)

QueryBuilder_exclude == NewUnaryOp("QueryBuilder.exclude", <<"-">>)

QueryBuilder_phrase(k) == NewPhrase("QueryBuilder.phrase", k)

QueryBuilder_NOT == NewUnaryOp("QueryBuilder.NOT", <<"N", "O", "T">>)

QueryBuilder_AND == NewBinaryOp("QueryBuilder.AND", <<"A", "N", "D">>)

QueryBuilder_OR == NewBinaryOp("QueryBuilder.OR", <<"O", "R">>)

\* str(t) for the tree built last.
\* str(t) that drops the tree it has rendered.
Render_Mut ==
    /\ Len(stack) >= 1
    /\ ret' = Returned("str", <<Top>>, Query_str(Top))
    /\ stack' = Popped(1)
    /\ UNCHANGED buf

Render ==
    /\ Len(stack) >= 1
    /\ ret' = IF Query_str_raises(Top) THEN Raised("str", <<Top>>)
              ELSE Returned("str", <<Top>>, Query_str(Top))
    /\ UNCHANGED <<stack, buf>>

\* repr(t) for the tree built last.
Repr ==
    /\ Len(stack) >= 1
    /\ ret' = Returned("repr", <<Top>>, Query_repr(Top))
    /\ UNCHANGED <<stack, buf>>

\* t == u for two trees the caller holds: the two built last, in either
\* order, or the last one with itself.
Compare ==
    /\ Len(stack) >= 1
    /\ \E pair \in {<<Len(stack), Len(stack)>>} \cup
                  (IF Len(stack) >= 2
                   THEN {<<Len(stack) - 1, Len(stack)>>, <<Len(stack), Len(stack) - 1>>}
                   ELSE {}) :
          ret' = IF Query_eq_raises(stack[pair[1]], stack[pair[2]])
                 THEN Raised("eq", <<stack[pair[1]], stack[pair[2]]>>)
                 ELSE Returned("eq", <<stack[pair[1]], stack[pair[2]]>>,
                               Query_eq(stack[pair[1]], stack[pair[2]]))
    /\ UNCHANGED <<stack, buf>>

\* t.accept(visitor) for the tree built last, with a fresh recording visitor.
Accept ==
    /\ Len(stack) >= 1
    /\ ret' = Returned("accept", <<Top>>, Query_accept(Top, <<>>))
    /\ UNCHANGED <<stack, buf>>

\* t.op_precedence() for the tree built last.
Precedence ==
    /\ Len(stack) >= 1
    /\ ret' = Returned("op_precedence", <<Top>>, op_precedence(Top))
    /\ UNCHANGED <<stack, buf>>

\* FieldWildcardQuery.is_wildcard_text(value)
IsWildcardText(value) ==
    /\ ret' = Returned("is_wildcard_text", <<value>>, is_wildcard_text(value))
    /\ UNCHANGED <<stack, buf>>

\* The caller types one more character of the text it is about to pass.
TypeChar(c) ==
    /\ Len(buf) < MaxStrLen
    /\ stack = <<>>
    /\ ret.call = "none"
    /\ buf' = Append(buf, c)
    /\ UNCHANGED <<stack, ret>>

Init ==
    /\ stack = <<>>
    /\ ret = NoCall
    /\ buf = <<>>

----------------------------------------------------------------------------
(* Trees composed from one leaf of each field class, under every operator. *)

TextAStar == PyStr(<<"a", "*">>)

NameF == PyStr(<<"f">>)

ArgUnaryOps == {KW_NOT, OP_INCLUDE, OP_EXCLUDE}

ArgBinaryOps == {KW_AND, KW_OR}

Construct ==
    /\ NodesHeld < MaxNodes
    /\ \/ NewFieldValue("FieldValueQuery", PyNone, TextAStar)
       \/ NewFieldWildcard("FieldWildcardQuery", PyNone, TextAStar)
       \/ NewFieldRange("FieldRangeQuery", NameF, PyInt(1), PyNone, FALSE)
       \/ \E op \in ArgUnaryOps : NewUnaryOp("UnaryOpQuery", op)
       \/ \E op \in ArgBinaryOps : NewBinaryOp("BinaryOpQuery", op)
       \/ \E k \in 0..MaxStack : NewPhrase("PhraseQuery", k)

\* The caller builds trees and renders them.
NextRender == Construct \/ Render

SpecRender == Init /\ [][NextRender]_vars

\* The caller builds trees and compares them.
NextCompare == Construct \/ Compare

SpecCompare == Init /\ [][NextCompare]_vars

\* The caller builds trees and visits them.
NextAccept == Construct \/ Accept

SpecAccept == Init /\ [][NextAccept]_vars

----------------------------------------------------------------------------
(* Field predicates over a wider choice of names and values, under at most *)
(* one level of operators, built directly or through QueryBuilder.         *)

MaxFieldNodes == 3

ArgNames == {PyNone, NameF}

ArgValues == {TextAStar, PyStr(<<"b">>), PyInt(1)}

ArgWildcards == {TextAStar, PyInt(1)}

ArgBounds == {PyNone, PyInt(1)}

ConstructFields ==
    /\ NodesHeld < MaxFieldNodes
    /\ \/ \E name \in ArgNames, value \in ArgValues :
             NewFieldValue("FieldValueQuery", name, value)
       \/ \E name \in ArgNames, value \in ArgWildcards :
             NewFieldWildcard("FieldWildcardQuery", name, value)
       \/ \E name \in ArgNames, start_value, end_value \in ArgBounds, x \in BOOLEAN :
             NewFieldRange("FieldRangeQuery", name, start_value, end_value, x)
       \/ \E op \in ArgUnaryOps : NewUnaryOp("UnaryOpQuery", op)
       \/ \E op \in ArgBinaryOps : NewBinaryOp("BinaryOpQuery", op)
       \/ \E k \in 0..MaxStack : NewPhrase("PhraseQuery", k)

BuildFields ==
    /\ NodesHeld < MaxFieldNodes
    /\ \E name \in ArgNames, from_value, to_value \in ArgBounds, x \in BOOLEAN :
          QueryBuilder_range(from_value, to_value, x, name)

NextFields == ConstructFields \/ BuildFields \/ Compare

SpecFields == Init /\ [][NextFields]_vars

----------------------------------------------------------------------------
(* Two trees built independently, each drawn from the trees of up to two   *)
(* levels of operators over five leaves, and compared.                     *)

\* Longest phrase among the trees compared.
MaxTerms == 2

EqLeaves ==
    { FieldValueQuery(PyNone, TextAStar),
      FieldValueQuery(NameF, PyInt(1)),
      FieldWildcardQuery(PyNone, TextAStar),
      FieldRangeQuery(NameF, PyInt(1), PyNone, FALSE),
      FieldRangeQuery(NameF, PyInt(1), PyNone, TRUE) }

\* The sequences of at most n elements of S.
TuplesOver(S, n) == UNION {[1..k -> S] : k \in 0..n}

\* The trees whose root is an operator or a phrase over trees of S.
ComposedOver(S) ==
    {UnaryOpQuery(op, term) : op \in ArgUnaryOps, term \in S}
        \cup {BinaryOpQuery(op, term1, term2) : op \in ArgBinaryOps, term1 \in S, term2 \in S}
        \cup {PhraseQuery(terms) : terms \in TuplesOver(S, MaxTerms)}

EqTrees ==
    LET level1 == EqLeaves \cup ComposedOver(EqLeaves)
    IN level1 \cup {UnaryOpQuery(KW_NOT, term) : term \in level1}

\* The caller holds two trees it has built.
InitEqual ==
    /\ stack \in {<<a, b>> : a \in EqTrees, b \in EqTrees}
    /\ ret = NoCall
    /\ buf = <<>>

NextEqual == Compare

SpecEqual == InitEqual /\ [][NextEqual]_vars

----------------------------------------------------------------------------
(* The caller types a text over a small alphabet and passes it to          *)
(* is_wildcard_text and to the wildcard constructors.                      *)

Alphabet == {"a", "*", "?", " ", "\\"}

ConstructFromText ==
    /\ stack = <<>>
    /\ \E name \in ArgNames, value \in {PyStr(buf), PyInt(1)} :
          \/ NewFieldWildcard("FieldWildcardQuery", name, value)
          \/ QueryBuilder_wildcard(value, name)

NextText ==
    \/ \E c \in Alphabet : TypeChar(c)
    \/ \E value \in {PyStr(buf), PyInt(1), PyNone} : IsWildcardText(value)
    \/ ConstructFromText

SpecText == Init /\ [][NextText]_vars

----------------------------------------------------------------------------
(* One field predicate, built from a typed text or from values that are    *)
(* not typed, and rendered.                                                *)

\* The characters a typed value is made of: a letter and every character
\* _is_quoted_text looks for.
ValueAlphabet == {"a"} \cup ReservedChars

TextA == PyStr(<<"a">>)

NameDepth == PyStr(<<"d", "e", "p", "t", "h">>)

\* Field names: absent, empty, and two names.
LeafNames == {PyNone, PyStr(<<>>), NameF, NameDepth}

LeafValues == {TextA, PyBool(TRUE), PyBool(FALSE), PyInt(1), PyInt(10), PyFloat(15), PyNone}

LeafBounds == {TextA, PyInt(1), PyInt(10), PyFloat(15), PyNone}

\* A FieldValueQuery or FieldWildcardQuery over the text typed.
ConstructTyped ==
    /\ stack = <<>>
    /\ \E name \in ArgNames :
          \/ NewFieldValue("FieldValueQuery", name, PyStr(buf))
          \/ NewFieldWildcard("FieldWildcardQuery", name, PyStr(buf))

\* A field predicate over values that are not typed; the caller has typed
\* nothing, as buf plays no part in these calls.
ConstructUntyped ==
    /\ stack = <<>>
    /\ buf = <<>>
    /\ \/ \E name \in LeafNames, value \in LeafValues :
             NewFieldValue("FieldValueQuery", name, value)
       \/ \E name \in LeafNames :
             NewFieldWildcard("FieldWildcardQuery", name, TextAStar)
       \/ \E name \in LeafNames, start_value, end_value \in LeafBounds, x \in BOOLEAN :
             NewFieldRange("FieldRangeQuery", name, start_value, end_value, x)

NextLeaves ==
    \/ \E c \in ValueAlphabet : TypeChar(c)
    \/ ConstructTyped
    \/ ConstructUntyped
    \/ Render

SpecLeaves == Init /\ [][NextLeaves]_vars

----------------------------------------------------------------------------
(* Two trees built independently, each drawn from the trees of up to two   *)
(* levels of operators over six leaves, the one built last handed to repr. *)

TextOne == PyStr(<<"1">>)

ReprLeaves ==
    { FieldValueQuery(PyNone, TextA),
      FieldValueQuery(NameF, PyInt(1)),
      FieldWildcardQuery(PyNone, TextAStar),
      FieldRangeQuery(NameF, PyInt(1), PyNone, FALSE),
      FieldRangeQuery(NameF, PyInt(1), PyNone, TRUE),
      FieldRangeQuery(NameF, TextOne, PyNone, FALSE) }

ReprTrees ==
    LET level1 == ReprLeaves \cup ComposedOver(ReprLeaves)
    IN level1 \cup {UnaryOpQuery(KW_NOT, term) : term \in level1}

\* The caller holds two trees it has built.
InitRepr ==
    /\ stack \in {<<a, b>> : a \in ReprTrees, b \in ReprTrees}
    /\ ret = NoCall
    /\ buf = <<>>

NextRepr == Repr

SpecRepr == InitRepr /\ [][NextRepr]_vars

----------------------------------------------------------------------------
(* Trees built through QueryBuilder only.                                  *)

BuildLeaf ==
    /\ NodesHeld < MaxFieldNodes
    /\ \/ \E name \in ArgNames, value \in ArgValues : QueryBuilder_value(value, name)
       \/ \E value \in ArgValues : QueryBuilder_value_default(value)
       \/ \E name \in ArgNames, value \in ArgWildcards : QueryBuilder_wildcard(value, name)
       \/ \E value \in ArgWildcards : QueryBuilder_wildcard_default(value)
       \/ \E name \in ArgNames, from_value, to_value \in ArgBounds, x \in BOOLEAN :
             QueryBuilder_range(from_value, to_value, x, name)
       \/ \E from_value, to_value \in ArgBounds :
             QueryBuilder_range_default(from_value, to_value)

BuildComposite ==
    /\ NodesHeld < MaxFieldNodes
    /\ \/ QueryBuilder_include
       \/ QueryBuilder_exclude
       \/ QueryBuilder_NOT
       \/ QueryBuilder_AND
       \/ QueryBuilder_OR
       \/ \E k \in 0..MaxStack : QueryBuilder_phrase(k)

NextBuilder == BuildLeaf \/ BuildComposite

SpecBuilder == Init /\ [][NextBuilder]_vars

----------------------------------------------------------------------------
(* Every reading operation, in any order, on the trees the caller holds.   *)

MaxReadNodes == 4

ConstructToRead == NodesHeld < MaxReadNodes /\ Construct

NextReaders ==
    ConstructToRead \/ Render \/ Repr \/ Compare \/ Accept \/ Precedence

SpecReaders == Init /\ [][NextReaders]_vars

----------------------------------------------------------------------------
(* Operator nodes built directly with any text as the operator.            *)

ArgOperatorTexts == KEYWORDS \cup OPERATORS \cup {<<"X", "O", "R">>, <<"~">>}

ConstructAnyOperator ==
    /\ NodesHeld < MaxFieldNodes
    /\ \/ NewFieldValue("FieldValueQuery", PyNone, TextAStar)
       \/ \E op \in ArgOperatorTexts : NewUnaryOp("UnaryOpQuery", op)
       \/ \E op \in ArgOperatorTexts : NewBinaryOp("BinaryOpQuery", op)

NextOperators == ConstructAnyOperator \/ Render

SpecOperators == Init /\ [][NextOperators]_vars

----------------------------------------------------------------------------
(* DbDataset: one dataset, created empty, to which the caller adds          *)
(* attribute names and records and whose properties it reads.              *)

\* Most records and most attribute names a dataset is given.
MaxRecords == 3

MaxAttributes == 3

\* dict()
EmptyDict == <<>>

\* DbDataset.__init__
DbDataset_init == [kind |-> "DbDataset", _records |-> <<>>, _attributes |-> <<>>]

DbDataset_metadata(self) == EmptyDict

DbDataset_attribute_count(self) == Len(self._attributes)

DbDataset_attribute_names(self) == self._attributes

\* add_attributes calling append where the code calls extend: the list of
\* names becomes one item.
DbDataset_add_attributes_Mut(self, attribute_names) ==
    [self EXCEPT !._attributes = Append(@, attribute_names)]

\* self._attributes.extend(attribute_names)
DbDataset_add_attributes(self, attribute_names) ==
    [self EXCEPT !._attributes = @ \o attribute_names]

DbDataset_record_count(self) == Len(self._records)

DbDataset_records(self) == self._records

\* add_record inserting at the front of the list.
DbDataset_add_record_Mut(self, record) ==
    [self EXCEPT !._records = <<record>> \o @]

\* self._records.append(record)
DbDataset_add_record(self, record) ==
    [self EXCEPT !._records = Append(@, record)]

\* DbDataset.to_dict: a dictionary with the one key 'records'.
DbDataset_to_dict(self) == [records |-> self._records]

\* The attribute names and the records the caller passes.
ArgAttributeNames == {PyStr(<<"l", "a", "t">>), PyStr(<<"l", "o", "n">>)}

ArgRecords == {<<PyFloat(-384), PyFloat(1098)>>, <<PyFloat(-385), PyFloat(1099)>>}

\* dataset = DbDataset()
NewDbDataset ==
    /\ stack = <<>>
    /\ stack' = <<DbDataset_init>>
    /\ ret' = Returned("DbDataset", <<>>, DbDataset_init)
    /\ UNCHANGED buf

\* dataset.add_attributes(attribute_names)
AddAttributes(attribute_names) ==
    /\ Len(stack) = 1
    /\ Len(stack[1]._attributes) + Len(attribute_names) <= MaxAttributes
    /\ stack' = <<DbDataset_add_attributes(stack[1], attribute_names)>>
    /\ ret' = Returned("add_attributes", <<stack[1], attribute_names>>, PyNone)
    /\ UNCHANGED buf

\* dataset.add_record(record)
AddRecord(record) ==
    /\ Len(stack) = 1
    /\ Len(stack[1]._records) < MaxRecords
    /\ stack' = <<DbDataset_add_record(stack[1], record)>>
    /\ ret' = Returned("add_record", <<stack[1], record>>, PyNone)
    /\ UNCHANGED buf

\* The caller reads a property of the dataset or calls to_dict().
ReadDbDataset ==
    /\ Len(stack) = 1
    /\ \/ ret' = Returned("metadata", <<stack[1]>>, DbDataset_metadata(stack[1]))
       \/ ret' = Returned("attribute_count", <<stack[1]>>, DbDataset_attribute_count(stack[1]))
       \/ ret' = Returned("attribute_names", <<stack[1]>>, DbDataset_attribute_names(stack[1]))
       \/ ret' = Returned("record_count", <<stack[1]>>, DbDataset_record_count(stack[1]))
       \/ ret' = Returned("records", <<stack[1]>>, DbDataset_records(stack[1]))
       \/ ret' = Returned("to_dict", <<stack[1]>>, DbDataset_to_dict(stack[1]))
    /\ UNCHANGED <<stack, buf>>

NextDbDataset ==
    \/ NewDbDataset
    \/ \E attribute_names \in TuplesOver(ArgAttributeNames, MaxAttributes) :
          AddAttributes(attribute_names)
    \/ \E record \in ArgRecords : AddRecord(record)
    \/ ReadDbDataset

SpecDbDataset == Init /\ [][NextDbDataset]_vars

----------------------------------------------------------------------------
(* Two trees over leaves of every scalar kind, rendered, represented and   *)
(* compared.                                                               *)

ScalarLeaves ==
    { FieldValueQuery(NameF, TextA),
      FieldValueQuery(NameF, PyBool(TRUE)),
      FieldValueQuery(NameF, PyInt(1)),
      FieldValueQuery(NameF, PyInt(-1)),
      FieldValueQuery(NameF, PyFloat(10)),
      FieldValueQuery(NameF, PyNone),
      FieldWildcardQuery(PyNone, TextAStar),
      FieldRangeQuery(NameF, PyInt(1), PyNone, FALSE),
      FieldRangeQuery(NameF, PyFloat(10), PyNone, FALSE) }

\* The leaves, and one tree of each other class over them.
ScalarTrees ==
    ScalarLeaves
        \cup {UnaryOpQuery(KW_NOT, term) : term \in ScalarLeaves}
        \cup {BinaryOpQuery(KW_AND, term1, term2) : term1 \in ScalarLeaves, term2 \in ScalarLeaves}
        \cup {PhraseQuery(terms) : terms \in TuplesOver(ScalarLeaves, 1)}

\* The caller holds two trees it has built.
InitScalars ==
    /\ stack \in {<<a, b>> : a \in ScalarTrees, b \in ScalarTrees}
    /\ ret = NoCall
    /\ buf = <<>>

NextScalars == Render \/ Repr \/ Compare

SpecScalars == InitScalars /\ [][NextScalars]_vars

----------------------------------------------------------------------------
(* A PhraseQuery built from a list the caller keeps and goes on changing.  *)
(* Here the caller holds objects: first its list, then the phrase built    *)
(* from it, whose terms attribute refers to a sequence object.             *)

\* Longest list the caller makes.
MaxListLen == 3

\* A list object and a tuple object with the given items.
list_object(items) == [kind |-> "list", items |-> items]

tuple_object(items) == [kind |-> "tuple", items |-> items]

\* tuple(terms): a new tuple of the items that terms has now.
tuple(terms) == tuple_object(terms.items)

\* PhraseQuery.__init__ storing the sequence it is given: self.terms = terms
PhraseQuery_init_Mut(terms) == [kind |-> "PhraseQuery", terms |-> terms]

\* PhraseQuery.__init__ on a sequence object: self.terms = tuple(terms)
PhraseQuery_init(terms) == [kind |-> "PhraseQuery", terms |-> tuple(terms)]

\* The phrase as its methods see it: the items its terms refer to.
PhraseSeen(phrase) == PhraseQuery(phrase.terms.items)

\* An object the caller holds, after the list `old` has become `new`: the
\* list itself and every attribute that refers to it show the change.
SeenAfter(obj, old, new) ==
    IF obj = old THEN new
    ELSE IF obj.kind = "PhraseQuery" /\ obj.terms = old
         THEN [obj EXCEPT !.terms = new]
         ELSE obj

\* The caller's list gets new items.
ListBecomes(items) ==
    /\ Len(stack) >= 1
    /\ items # stack[1].items
    /\ stack' = [i \in DOMAIN stack |->
                    SeenAfter(stack[i], stack[1], list_object(items))]
    /\ UNCHANGED <<ret, buf>>

\* The leaves the caller puts into its list.
ArgTerms ==
    {FieldValueQuery(PyNone, TextAStar), FieldRangeQuery(NameF, PyInt(1), PyNone, FALSE)}

\* seq = []
NewList ==
    /\ stack = <<>>
    /\ stack' = <<list_object(<<>>)>>
    /\ UNCHANGED <<ret, buf>>

\* seq.append(q)
ListAppend(q) ==
    /\ Len(stack) >= 1
    /\ Len(stack[1].items) < MaxListLen
    /\ ListBecomes(Append(stack[1].items, q))

\* del seq[i]
ListRemove(i) ==
    /\ Len(stack) >= 1
    /\ i \in 1..Len(stack[1].items)
    /\ ListBecomes(SubSeq(stack[1].items, 1, i - 1)
                   \o SubSeq(stack[1].items, i + 1, Len(stack[1].items)))

\* seq[i] = q
ListReplace(i, q) ==
    /\ Len(stack) >= 1
    /\ i \in 1..Len(stack[1].items)
    /\ ListBecomes([stack[1].items EXCEPT ![i] = q])

\* phrase = PhraseQuery(seq)
NewPhraseFromList ==
    /\ Len(stack) = 1
    /\ stack' = <<stack[1], PhraseQuery_init(stack[1])>>
    /\ ret' = Returned("PhraseQuery", <<stack[1].items>>, PhraseSeen(PhraseQuery_init(stack[1])))
    /\ UNCHANGED buf

\* str(phrase)
RenderPhrase ==
    /\ Len(stack) = 2
    /\ ret' = Returned("str", <<PhraseSeen(stack[2])>>, Query_str(PhraseSeen(stack[2])))
    /\ UNCHANGED <<stack, buf>>

\* phrase.accept(visitor), with a fresh recording visitor.
AcceptPhrase ==
    /\ Len(stack) = 2
    /\ ret' = Returned("accept", <<PhraseSeen(stack[2])>>,
                       Query_accept(PhraseSeen(stack[2]), <<>>))
    /\ UNCHANGED <<stack, buf>>

NextSnapshot ==
    \/ NewList
    \/ \E q \in ArgTerms : ListAppend(q)
    \/ \E i \in 1..MaxListLen : ListRemove(i)
    \/ \E i \in 1..MaxListLen, q \in ArgTerms : ListReplace(i, q)
    \/ NewPhraseFromList
    \/ RenderPhrase
    \/ AcceptPhrase

SpecSnapshot == Init /\ [][NextSnapshot]_vars

----------------------------------------------------------------------------
(* Every use of the module.                                                *)

Next == NextRender \/ NextCompare \/ NextAccept \/ NextFields \/ NextEqual \/ NextText \/ NextLeaves \/ NextRepr \/ NextBuilder \/ NextReaders \/ NextOperators
        \/ NextDbDataset \/ NextScalars \/ NextSnapshot

Spec == Init /\ [][Next]_vars

----------------------------------------------------------------------------
(* Properties.                                                             *)

IsField(q) == q.kind \in {"FieldValueQuery", "FieldWildcardQuery", "FieldRangeQuery"}

\* The operand's text, in parentheses exactly when the operand's precedence
\* is strictly lower than the node's.
OperandText(node, operand) ==
    IF op_precedence(operand) < op_precedence(node)
    THEN <<"(">> \o Query_str(operand) \o <<")">>
    ELSE Query_str(operand)

\* C1: str() of a BinaryOpQuery or UnaryOpQuery wraps an operand's text in
\* parentheses if and only if the operand's op_precedence() is strictly lower
\* than the node's own, each operand decided on its own; AND(a, OR(b, c))
\* renders 'a AND (b OR c)' and OR(a, AND(b, c)) renders 'a OR b AND c'.
C1_ParenthesesIffLowerPrecedence ==
    ret.call = "str" =>
        LET t == ret.args[1]
        IN /\ t.kind = "BinaryOpQuery" =>
                ret.value = OperandText(t, t.term1) \o <<" ">> \o t.op \o <<" ">>
                            \o OperandText(t, t.term2)
           /\ t.kind = "UnaryOpQuery" =>
                \E sep \in {<<>>, <<" ">>} :
                    ret.value = t.op \o sep \o OperandText(t, t.term)
           /\ (/\ t.kind = "BinaryOpQuery" /\ t.op = KW_AND /\ IsField(t.term1)
               /\ t.term2.kind = "BinaryOpQuery" /\ t.term2.op = KW_OR
               /\ IsField(t.term2.term1) /\ IsField(t.term2.term2)) =>
                ret.value = Query_str(t.term1) \o <<" ", "A", "N", "D", " ", "(">>
                            \o Query_str(t.term2.term1) \o <<" ", "O", "R", " ">>
                            \o Query_str(t.term2.term2) \o <<")">>
           /\ (/\ t.kind = "BinaryOpQuery" /\ t.op = KW_OR /\ IsField(t.term1)
               /\ t.term2.kind = "BinaryOpQuery" /\ t.term2.op = KW_AND
               /\ IsField(t.term2.term1) /\ IsField(t.term2.term2)) =>
                ret.value = Query_str(t.term1) \o <<" ", "O", "R", " ">>
                            \o Query_str(t.term2.term1) \o <<" ", "A", "N", "D", " ">>
                            \o Query_str(t.term2.term2)

\* AND(a, OR(b, c)) has been rendered, with parentheses around the OR only.
C1_Witness ==
    /\ ret.call = "str"
    /\ ret.args[1].kind = "BinaryOpQuery" /\ ret.args[1].op = KW_AND
    /\ ret.args[1].term1.kind = "FieldValueQuery"
    /\ ret.args[1].term2.kind = "BinaryOpQuery" /\ ret.args[1].term2.op = KW_OR
    /\ ret.args[1].term2.term1.kind = "FieldWildcardQuery"
    /\ ret.args[1].term2.term2.kind = "FieldRangeQuery"
    /\ ret.value = <<"\"", "a", "*", "\"", " ", "A", "N", "D", " ", "(", "a", "*",
                     " ", "O", "R", " ", "f", ":", "[", "1", " ", "T", "O", " ",
                     "N", "o", "n", "e", "]", ")">>

\* C2: no two structurally unequal trees render to the same text, so that the
\* tree can be recovered from its rendering.
C2_RenderingIsInjective ==
    (ret.call = "str" /\ Len(stack) >= 2) =>
        (Query_str(Below) = ret.value => Below = ret.args[1])

\* C3: == never holds between nodes of different classes: not between a
\* FieldValueQuery and a FieldWildcardQuery with the same name and text, in
\* either order, nor between a PhraseQuery with one term and that term.
C3_EqualityIsVariantStrict ==
    ret.call = "eq" =>
        (ret.args[1].kind # ret.args[2].kind => ret.value = FALSE)

\* A FieldWildcardQuery has been compared with a FieldValueQuery of the same
\* name and text.
C3_Witness ==
    /\ ret.call = "eq"
    /\ ret.args[1].kind = "FieldWildcardQuery"
    /\ ret.args[2].kind = "FieldValueQuery"
    /\ ret.args[1].name = ret.args[2].name
    /\ ret.args[1].value = ret.args[2].value
    /\ ret.value = FALSE

\* A scalar up to Python equality: a text, None, or a number whatever its
\* numeric type.
ScalarKey(v) ==
    CASE v.t = "str" -> <<"text", v.s, 0>>
      [] v.t = "NoneType" -> <<"none", <<>>, 0>>
      [] OTHER -> <<"number", <<>>, Tenths(v)>>

\* A tree with every scalar replaced by its key: two trees have the same key
\* exactly when they are the same class with equal fields at every level.
RECURSIVE TreeKey(_)
TreeKey(q) ==
    CASE q.kind = "PhraseQuery" ->
            [kind |-> q.kind, terms |-> [i \in 1..Len(q.terms) |-> TreeKey(q.terms[i])]]
      [] q.kind = "BinaryOpQuery" ->
            [kind |-> q.kind, op |-> q.op,
             term1 |-> TreeKey(q.term1), term2 |-> TreeKey(q.term2)]
      [] q.kind = "UnaryOpQuery" ->
            [kind |-> q.kind, op |-> q.op, term |-> TreeKey(q.term)]
      [] q.kind = "FieldRangeQuery" ->
            [kind |-> q.kind, name |-> ScalarKey(q.name),
             start_value |-> ScalarKey(q.start_value),
             end_value |-> ScalarKey(q.end_value), is_exclusive |-> q.is_exclusive]
      [] OTHER ->
            [kind |-> q.kind, name |-> ScalarKey(q.name), value |-> ScalarKey(q.value)]

\* C4: two independently built trees compare equal if and only if they are
\* the same class with equal fields at every level: operator and children,
\* terms in order, name and value, name, start, end and is_exclusive.
C4_EqualIffSameShapeAndFields ==
    ret.call = "eq" =>
        (ret.value <=> TreeKey(ret.args[1]) = TreeKey(ret.args[2]))

\* Two trees built one after the other, the same operator over a phrase of
\* one FieldRangeQuery, the ranges differing in is_exclusive only, have been
\* compared and found unequal.
C4_Witness ==
    /\ ret.call = "eq"
    /\ Len(stack) >= 2
    /\ ret.args = <<Below, Top>>
    /\ Below.kind = "UnaryOpQuery" /\ Top.kind = "UnaryOpQuery"
    /\ Below.op = Top.op
    /\ Below.term.kind = "PhraseQuery" /\ Top.term.kind = "PhraseQuery"
    /\ Len(Below.term.terms) = 1 /\ Len(Top.term.terms) = 1
    /\ LET r1 == Below.term.terms[1]
           r2 == Top.term.terms[1]
       IN /\ r1.kind = "FieldRangeQuery" /\ r2.kind = "FieldRangeQuery"
          /\ r1.name = r2.name
          /\ r1.start_value = r2.start_value
          /\ r1.end_value = r2.end_value
          /\ r1.is_exclusive # r2.is_exclusive
    /\ ret.value = FALSE

\* The number of backslashes right before position i of s.
RECURSIVE BackslashesBefore(_, _)
BackslashesBefore(s, i) ==
    IF i > 1 /\ s[i - 1] = "\\" THEN 1 + BackslashesBefore(s, i - 1) ELSE 0

\* The character at position i of s is escaped by a preceding backslash.
EscapedAt(s, i) == BackslashesBefore(s, i) % 2 = 1

\* The wildcard invariant: a text with an unescaped '*' or '?' and no
\* unescaped whitespace.
IsWildcardValue(v) ==
    /\ v.t = "str"
    /\ \E i \in 1..Len(v.s) : v.s[i] \in {"*", "?"} /\ ~ EscapedAt(v.s, i)
    /\ \A i \in 1..Len(v.s) : isspace(v.s[i]) => EscapedAt(v.s, i)

\* C5: is_wildcard_text(v) is true if and only if v is a text with at least
\* one unescaped '*' or '?' and no unescaped whitespace.
C5_IsWildcardTextMatchesRule ==
    ret.call = "is_wildcard_text" =>
        (ret.value <=> IsWildcardValue(ret.args[1]))

\* C6: constructing a FieldWildcardQuery, directly or through
\* QueryBuilder.wildcard, fails whenever the value is not a text with an
\* unescaped wildcard character and no unescaped whitespace.
C6_WildcardConstructionValidates ==
    ret.call \in {"FieldWildcardQuery", "QueryBuilder.wildcard"} =>
        (~ IsWildcardValue(ret.args[2]) => ret.raised)

\* Every node of a tree, the tree itself included.
RECURSIVE Nodes(_)
RECURSIVE NodesOfAll(_)
NodesOfAll(ts) == IF ts = <<>> THEN {} ELSE Nodes(Head(ts)) \cup NodesOfAll(Tail(ts))

Nodes(q) ==
    CASE q.kind = "PhraseQuery" -> {q} \cup NodesOfAll(q.terms)
      [] q.kind = "BinaryOpQuery" -> {q} \cup Nodes(q.term1) \cup Nodes(q.term2)
      [] q.kind = "UnaryOpQuery" -> {q} \cup Nodes(q.term)
      [] OTHER -> {q}

\* C7: constructing a FieldRangeQuery, directly or through
\* QueryBuilder.range, fails if and only if both bounds are None, so every
\* FieldRangeQuery that exists has a bound that is not None.
C7_RangeFailsIffBothBoundsAbsent ==
    /\ ret.call \in {"FieldRangeQuery", "QueryBuilder.range"} =>
          (ret.raised <=> (ret.args[2].t = "NoneType" /\ ret.args[3].t = "NoneType"))
    /\ \A q \in NodesOfAll(stack) :
          q.kind = "FieldRangeQuery" =>
              (q.start_value.t # "NoneType" \/ q.end_value.t # "NoneType")

\* QueryBuilder.range has failed on two absent bounds while the caller holds
\* a range built with one bound absent.
C7_Witness ==
    /\ ret.call = "QueryBuilder.range" /\ ret.raised
    /\ ret.args[2] = PyNone /\ ret.args[3] = PyNone
    /\ Len(stack) >= 1
    /\ Top.kind = "FieldRangeQuery"
    /\ Top.start_value = PyNone

\* The nodes of a tree in post-order, children left to right.
RECURSIVE PostOrder(_)
RECURSIVE PostOrderAll(_)
PostOrderAll(ts) ==
    IF ts = <<>> THEN <<>> ELSE PostOrder(Head(ts)) \o PostOrderAll(Tail(ts))

PostOrder(q) ==
    CASE q.kind = "PhraseQuery" -> PostOrderAll(q.terms) \o <<q>>
      [] q.kind = "BinaryOpQuery" -> PostOrder(q.term1) \o PostOrder(q.term2) \o <<q>>
      [] q.kind = "UnaryOpQuery" -> PostOrder(q.term) \o <<q>>
      [] OTHER -> <<q>>

\* The calls the visitor has received during the last accept.
Calls == ret.value.log

\* C8: accept walks the tree in post-order, left to right: one visit call
\* per node, after the calls for all its descendants, term1 wholly before
\* term2, the terms of a phrase in sequence order.
C8_AcceptVisitsInPostOrder ==
    ret.call = "accept" =>
        /\ Len(Calls) = Size(ret.args[1])
        /\ [k \in 1..Len(Calls) |-> Calls[k].qt] = PostOrder(ret.args[1])

\* A BinaryOpQuery whose term1 is an operator over a leaf other than term2
\* has been visited.
C8_Witness ==
    /\ ret.call = "accept"
    /\ ret.args[1].kind = "BinaryOpQuery"
    /\ ret.args[1].term1.kind = "UnaryOpQuery"
    /\ ret.args[1].term1.term.kind = "FieldValueQuery"
    /\ ret.args[1].term2.kind = "FieldRangeQuery"
    /\ [k \in 1..Len(Calls) |-> Calls[k].method] =
          <<"visit_field_value", "visit_unary_op", "visit_field_range", "visit_binary_op">>

\* The children of a node, in order.
Children(q) ==
    CASE q.kind = "PhraseQuery" -> q.terms
      [] q.kind = "BinaryOpQuery" -> <<q.term1, q.term2>>
      [] q.kind = "UnaryOpQuery" -> <<q.term>>
      [] OTHER -> <<>>

\* The child results a visit call received: the list given to visit_phrase,
\* the results given to the other visit methods.
ResultsPassed(c) == IF c.method = "visit_phrase" THEN c.args[1] ELSE c.args

\* The number of the call that visited child i of the node visited by call k:
\* the children after it were visited in between.
CallOfChild(k, i) ==
    LET kids == Children(Calls[k].qt)
    IN k - 1 - SizeAll(SubSeq(kids, i + 1, Len(kids)))

\* C9: the arguments of a composite node's visit call are the values its
\* children's accept calls returned, one per child and in child order, and
\* accept returns what the node's own visit call returns.
C9_VisitReceivesChildResults ==
    ret.call = "accept" =>
        /\ ret.value.value = Len(Calls)
        /\ Calls[Len(Calls)].qt = ret.args[1]
        /\ \A k \in 1..Len(Calls) :
              LET kids == Children(Calls[k].qt)
                  passed == ResultsPassed(Calls[k])
              IN /\ Len(Calls[k].args) =
                       (IF Calls[k].qt.kind = "PhraseQuery" THEN 1 ELSE Len(kids))
                 /\ Len(passed) = Len(kids)
                 /\ \A i \in 1..Len(kids) :
                       /\ passed[i] = CallOfChild(k, i)
                       /\ Calls[passed[i]].qt = kids[i]

\* A PhraseQuery of two different terms has been visited and visit_phrase
\* received two results.
C9_Witness ==
    /\ ret.call = "accept"
    /\ ret.args[1].kind = "PhraseQuery"
    /\ Len(ret.args[1].terms) = 2
    /\ ret.args[1].terms[1].kind # ret.args[1].terms[2].kind
    /\ Len(Calls[Len(Calls)].args[1]) = 2

\* The visit method of each class.
VisitMethodOf(q) ==
    CASE q.kind = "PhraseQuery" -> "visit_phrase"
      [] q.kind = "BinaryOpQuery" -> "visit_binary_op"
      [] q.kind = "UnaryOpQuery" -> "visit_unary_op"
      [] q.kind = "FieldValueQuery" -> "visit_field_value"
      [] q.kind = "FieldRangeQuery" -> "visit_field_range"
      [] q.kind = "FieldWildcardQuery" -> "visit_field_wildcard"

\* C10: accept hands every node to the visit method of its own class and to
\* no other; a FieldWildcardQuery goes to visit_field_wildcard, never to
\* visit_field_value.
C10_AcceptDispatchesOnClass ==
    ret.call = "accept" =>
        \A k \in 1..Len(Calls) : Calls[k].method = VisitMethodOf(Calls[k].qt)

\* A tree holding a FieldWildcardQuery under an operator has been visited.
C10_Witness ==
    /\ ret.call = "accept"
    /\ ret.args[1].kind = "UnaryOpQuery"
    /\ ret.args[1].term.kind = "FieldWildcardQuery"
    /\ Calls[1].method = "visit_field_wildcard"

\* The rendering of a field predicate is the given value text, alone or
\* after the field name and a colon.
RendersValueAs(q, rendered, text) ==
    \/ rendered = text
    \/ q.name.t = "str" /\ rendered = q.name.s \o <<":">> \o text

\* The characters the quoting rule lists as reserved.
ReservedByRule ==
    {" ", "+", "-", "&", "|", "!", "(", ")", "{", "}", "[", "]", "^", "\"", "~",
     "*", "?", ":", "\\"}

\* A text with a backslash put before each of its double quotes.
RECURSIVE WithQuotesEscaped(_)
WithQuotesEscaped(s) ==
    IF s = <<>> THEN <<>>
    ELSE LET front == SubSeq(s, 1, Len(s) - 1)
             last == s[Len(s)]
         IN IF last = "\"" THEN WithQuotesEscaped(front) \o <<"\\", "\"">>
            ELSE WithQuotesEscaped(front) \o <<last>>

\* The natural textual form of the values that are not text.
NaturalText(v) ==
    CASE v = PyBool(TRUE) -> <<"T", "r", "u", "e">>
      [] v = PyBool(FALSE) -> <<"F", "a", "l", "s", "e">>
      [] v = PyInt(1) -> <<"1">>
      [] v = PyInt(10) -> <<"1", "0">>
      [] v = PyFloat(15) -> <<"1", ".", "5">>
      [] v = PyNone -> <<"N", "o", "n", "e">>

\* C11: a FieldValueQuery renders a text value in double quotes, each
\* internal double quote after a backslash, if and only if the text holds a
\* reserved character, and unchanged otherwise; a value that is not text
\* renders in its natural form, never quoted.
C11_TextQuotedIffReserved ==
    (ret.call = "str" /\ ret.args[1].kind = "FieldValueQuery") =>
        LET q == ret.args[1]
            v == q.value
        IN IF v.t = "str"
           THEN IF \E i \in 1..Len(v.s) : v.s[i] \in ReservedByRule
                THEN RendersValueAs(q, ret.value,
                                    <<"\"">> \o WithQuotesEscaped(v.s) \o <<"\"">>)
                ELSE RendersValueAs(q, ret.value, v.s)
           ELSE RendersValueAs(q, ret.value, NaturalText(v))

\* A FieldValueQuery whose text holds a letter, a space and a double quote
\* has been rendered in quotes with the double quote escaped.
C11_Witness ==
    /\ ret.call = "str"
    /\ ret.args[1].kind = "FieldValueQuery"
    /\ ret.args[1].name = PyNone
    /\ ret.args[1].value = PyStr(<<"a", " ", "\"">>)
    /\ ret.value = <<"\"", "a", " ", "\\", "\"", "\"">>

\* C12: a field predicate renders as the name, a colon and the value text if
\* and only if its name is not None, the empty name included, and as the
\* value text alone if and only if the name is None.
C12_NamePrefixIffNamePresent ==
    (ret.call = "str" /\ IsField(ret.args[1])) =>
        LET q == ret.args[1]
        IN ret.value = (IF q.name.t # "NoneType"
                        THEN PyStrOf(q.name) \o <<":">> \o value_to_str(q)
                        ELSE value_to_str(q))

\* The text of a range bound: a text as it is, any other value in its
\* natural form, None as the literal None.
BoundText(v) == IF v.t = "str" THEN v.s ELSE NaturalText(v)

\* C13: a FieldRangeQuery renders as 'start TO end' in '[' ']' when
\* is_exclusive is false and in '{' '}' when it is true, after 'name:' when it
\* has a name (a name other than None, the empty text included), an absent
\* bound rendered as None.
C13_RangeRendering ==
    (ret.call = "str" /\ ret.args[1].kind = "FieldRangeQuery") =>
        LET q == ret.args[1]
            body == BoundText(q.start_value) \o <<" ", "T", "O", " ">>
                    \o BoundText(q.end_value)
            enclosed == IF q.is_exclusive THEN <<"{">> \o body \o <<"}">>
                        ELSE <<"[">> \o body \o <<"]">>
        IN ret.value = (IF q.name = PyNone THEN enclosed
                        ELSE q.name.s \o <<":">> \o enclosed)

\* C14: a UnaryOpQuery renders as NOT, one space and the operand, or as '+'
\* or '-' immediately followed by the operand, the operand in parentheses
\* when its precedence is lower.
C14_UnaryOpRendering ==
    (ret.call = "str" /\ ret.args[1].kind = "UnaryOpQuery") =>
        LET t == ret.args[1]
        IN /\ t.op = <<"N", "O", "T">> =>
                ret.value = <<"N", "O", "T", " ">> \o OperandText(t, t.term)
           /\ t.op = <<"+">> => ret.value = <<"+">> \o OperandText(t, t.term)
           /\ t.op = <<"-">> => ret.value = <<"-">> \o OperandText(t, t.term)

\* NOT over an OR has been rendered as 'NOT (... OR ...)'.
C14_Witness ==
    /\ ret.call = "str"
    /\ ret.args[1].kind = "UnaryOpQuery"
    /\ ret.args[1].op = <<"N", "O", "T">>
    /\ ret.args[1].term.kind = "BinaryOpQuery"
    /\ ret.args[1].term.op = <<"O", "R">>
    /\ ret.value = <<"N", "O", "T", " ", "(">> \o Query_str(ret.args[1].term) \o <<")">>

\* The texts of a sequence with one space between each two.
RECURSIVE SpaceSeparated(_)
SpaceSeparated(texts) ==
    IF Len(texts) = 0 THEN <<>>
    ELSE IF Len(texts) = 1 THEN texts[1]
    ELSE SpaceSeparated(SubSeq(texts, 1, Len(texts) - 1)) \o <<" ">> \o texts[Len(texts)]

\* C15: a PhraseQuery renders as the renderings of its terms in order, one
\* space between each two and no parentheses added; with no term it renders
\* as the empty text and with one term exactly as that term.
C15_PhraseRendering ==
    (ret.call = "str" /\ ret.args[1].kind = "PhraseQuery") =>
        LET terms == ret.args[1].terms
        IN /\ ret.value = SpaceSeparated([i \in 1..Len(terms) |-> Query_str(terms[i])])
           /\ Len(terms) = 0 => ret.value = <<>>
           /\ Len(terms) = 1 => ret.value = Query_str(terms[1])

\* A phrase of an OR and a field predicate has been rendered, the OR without
\* parentheses.
C15_Witness ==
    /\ ret.call = "str"
    /\ ret.args[1].kind = "PhraseQuery"
    /\ Len(ret.args[1].terms) = 2
    /\ ret.args[1].terms[1].kind = "BinaryOpQuery"
    /\ ret.args[1].terms[1].op = <<"O", "R">>
    /\ IsField(ret.args[1].terms[2])
    /\ ret.value = Query_str(ret.args[1].terms[1]) \o <<" ">>
                   \o Query_str(ret.args[1].terms[2])

\* C16: a FieldWildcardQuery renders its value unchanged and without quotes,
\* whatever reserved characters it holds, alone or after 'name:'.
C16_WildcardRendersUnquoted ==
    (ret.call = "str" /\ ret.args[1].kind = "FieldWildcardQuery") =>
        RendersValueAs(ret.args[1], ret.value, ret.args[1].value.s)

\* A FieldWildcardQuery named f whose value holds a star, a space and a
\* double quote has been rendered as it is.
C16_Witness ==
    /\ ret.call = "str"
    /\ ret.args[1].kind = "FieldWildcardQuery"
    /\ ret.args[1].name = NameF
    /\ ret.args[1].value = PyStr(<<"*", " ", "\"">>)
    /\ ret.value = <<"f", ":", "*", " ", "\"">>

\* A text in double quotes, a backslash before each of its double quotes.
QuotedText(s) == <<"\"">> \o WithQuotesEscaped(s) \o <<"\"">>

\* A constructor argument as the reconstruction representation shows it:
\* a text always quoted, any other value in its natural form.
ArgRepr(v) == IF v.t = "str" THEN QuotedText(v.s) ELSE NaturalText(v)

\* The texts of a sequence with a comma and a space between each two.
RECURSIVE CommaSeparated(_)
CommaSeparated(texts) ==
    IF Len(texts) = 0 THEN <<>>
    ELSE IF Len(texts) = 1 THEN texts[1]
    ELSE CommaSeparated(SubSeq(texts, 1, Len(texts) - 1)) \o <<",", " ">>
         \o texts[Len(texts)]

\* ClassName(args) with every text argument quoted.
RECURSIVE ReprWithTextQuoted(_)
ReprWithTextQuoted(q) ==
    LET args ==
          CASE q.kind = "PhraseQuery" ->
                  <<"[">> \o CommaSeparated([i \in 1..Len(q.terms) |->
                                               ReprWithTextQuoted(q.terms[i])])
                  \o <<"]">>
            [] q.kind = "BinaryOpQuery" ->
                  QuotedText(q.op) \o <<",", " ">> \o ReprWithTextQuoted(q.term1)
                  \o <<",", " ">> \o ReprWithTextQuoted(q.term2)
            [] q.kind = "UnaryOpQuery" ->
                  QuotedText(q.op) \o <<",", " ">> \o ReprWithTextQuoted(q.term)
            [] q.kind = "FieldRangeQuery" ->
                  ArgRepr(q.name) \o <<",", " ">> \o ArgRepr(q.start_value)
                  \o <<",", " ">> \o ArgRepr(q.end_value)
                  \o (IF q.is_exclusive
                      THEN <<",", " ", "i", "s", "_", "e", "x", "c", "l", "u", "s",
                             "i", "v", "e", "=", "T", "r", "u", "e">>
                      ELSE <<>>)
            [] OTHER -> ArgRepr(q.name) \o <<",", " ">> \o ArgRepr(q.value)
    IN type_name(q) \o <<"(">> \o args \o <<")">>

\* C17: in repr() every text argument (operator, field name, value, text
\* bounds of a range) appears in double quotes, its double quotes escaped,
\* whether or not it holds a reserved character.
C17_ReprQuotesEveryText ==
    ret.call = "repr" => ret.value = ReprWithTextQuoted(ret.args[1])

\* C18: repr(t) has the form ClassName(args) and tells trees apart: two trees
\* with the same repr are equal.
C18_ReprIsInjective ==
    (ret.call = "repr" /\ Len(stack) >= 2) =>
        /\ \E args \in {args_to_repr(ret.args[1])} :
              ret.value = type_name(ret.args[1]) \o <<"(">> \o args \o <<")">>
        /\ Query_repr(Below) = ret.value => Query_eq(Below, ret.args[1])

\* The call just made returned a node equal to the given one and the caller
\* now holds it in place of the operands it was built from.
BuilderReturned(node, operands) ==
    /\ ~ ret'.raised
    /\ Query_eq(ret'.value, node)
    /\ Query_eq(node, ret'.value)
    /\ stack' = Append(Popped(operands), ret'.value)

\* The call just made failed and left the caller's trees as they were.
BuilderRejected == ret'.raised /\ stack' = stack

\* C19: every QueryBuilder operation returns a node equal to the one the
\* direct constructor call gives: value and wildcard with no name by
\* default, range with no name and inclusive by default, include, exclude
\* and NOT as UnaryOpQuery of '+', '-' and 'NOT', AND and OR as BinaryOpQuery
\* of the two arguments in their order, phrase as PhraseQuery of its
\* arguments in their order; it rejects the arguments the constructors reject
\* and no others.
C19_BuilderMatchesConstructors ==
    [][LET c == ret'.call
           a == ret'.args
       IN /\ c = "QueryBuilder.value" =>
                BuilderReturned(FieldValueQuery(a[1], a[2]), 0)
          /\ c = "QueryBuilder.value(value)" =>
                BuilderReturned(FieldValueQuery(PyNone, a[2]), 0)
          /\ c = "QueryBuilder.wildcard" =>
                IF a[2].t = "str"
                THEN BuilderReturned(FieldWildcardQuery(a[1], a[2]), 0)
                ELSE BuilderRejected
          /\ c = "QueryBuilder.wildcard(value)" =>
                IF a[2].t = "str"
                THEN BuilderReturned(FieldWildcardQuery(PyNone, a[2]), 0)
                ELSE BuilderRejected
          /\ c = "QueryBuilder.range" =>
                IF a[2] = PyNone /\ a[3] = PyNone
                THEN BuilderRejected
                ELSE BuilderReturned(FieldRangeQuery(a[1], a[2], a[3], a[4]), 0)
          /\ c = "QueryBuilder.range(from_value, to_value)" =>
                IF a[2] = PyNone /\ a[3] = PyNone
                THEN BuilderRejected
                ELSE BuilderReturned(FieldRangeQuery(PyNone, a[2], a[3], FALSE), 0)
          /\ c = "QueryBuilder.include" =>
                BuilderReturned(UnaryOpQuery(<<"+">>, Top), 1)
          /\ c = "QueryBuilder.exclude" =>
                BuilderReturned(UnaryOpQuery(<<"-">>, Top), 1)
          /\ c = "QueryBuilder.NOT" =>
                BuilderReturned(UnaryOpQuery(<<"N", "O", "T">>, Top), 1)
          /\ c = "QueryBuilder.AND" =>
                BuilderReturned(BinaryOpQuery(<<"A", "N", "D">>, Below, Top), 2)
          /\ c = "QueryBuilder.OR" =>
                BuilderReturned(BinaryOpQuery(<<"O", "R">>, Below, Top), 2)
          /\ c = "QueryBuilder.phrase" =>
                BuilderReturned(PhraseQuery(Last(Len(a[1]))), Len(a[1]))
      ]_vars

\* QueryBuilder.AND has returned a BinaryOpQuery whose operands differ, over
\* a range built with the defaults of QueryBuilder.range.
C19_Witness ==
    /\ ret.call = "QueryBuilder.AND"
    /\ ret.value.kind = "BinaryOpQuery"
    /\ ret.value.op = <<"A", "N", "D">>
    /\ ret.value.term1 = FieldRangeQuery(PyNone, PyInt(1), PyNone, FALSE)
    /\ ret.value.term2.kind = "FieldValueQuery"
    /\ stack = <<ret.value>>

\* The operations that only read a tree.
ReadCalls == {"str", "repr", "eq", "accept", "op_precedence"}

\* What the reading operation `call` gives on the trees `args`.
ReadResult(call, args) ==
    CASE call = "str" -> Query_str(args[1])
      [] call = "repr" -> Query_repr(args[1])
      [] call = "eq" -> Query_eq(args[1], args[2])
      [] call = "accept" -> Query_accept(args[1], <<>>)
      [] call = "op_precedence" -> op_precedence(args[1])

\* Every tree of `args` is one of the trees held in `held`, field for field.
StillHeld(args, held) ==
    \A i \in 1..Len(args) : \E j \in 1..Len(held) : held[j] = args[i]

\* C20: str, repr, ==, op_precedence and accept leave every field of every
\* node unchanged: after each of them the caller holds the same trees, the
\* trees read are still among them, and reading them again gives the same
\* result, also for the read made just before this one (so two reads
\* interleaved on the same trees do not disturb each other).
C20_ReadersChangeNothing ==
    [][ret'.call \in ReadCalls =>
          /\ ~ ret'.raised
          /\ stack' = stack
          /\ StillHeld(ret'.args, stack')
          /\ ReadResult(ret'.call, ret'.args) = ret'.value
          /\ ret.call \in ReadCalls =>
                /\ StillHeld(ret.args, stack')
                /\ ReadResult(ret.call, ret.args) = ret.value
      ]_vars

\* accept has read a tree in which one sub-tree occurs twice, while the
\* caller holds another tree as well.
C20_Witness ==
    /\ ret.call = "accept"
    /\ Len(stack) = 2
    /\ Top.kind = "BinaryOpQuery"
    /\ Top.term1 = Top.term2
    /\ Top.term1.kind = "FieldRangeQuery"
    /\ stack[1].kind = "PhraseQuery"
    /\ ret.args = <<Top>>

\* The text of a tree inside parentheses.
Wrapped(q) == <<"(">> \o Query_str(q) \o <<")">>

IsBinaryOp(q, op) == q.kind = "BinaryOpQuery" /\ q.op = op

\* The BinaryOpQuery rendered last shows its left operand as `left`, whatever
\* it does with the right one.
RenderedLeftAs(left) ==
    LET t == ret.args[1]
    IN \E right \in {Query_str(t.term2), Wrapped(t.term2)} :
          ret.value = left \o <<" ">> \o t.op \o <<" ">> \o right

\* The BinaryOpQuery rendered last shows its right operand as `right`.
RenderedRightAs(right) ==
    LET t == ret.args[1]
    IN \E left \in {Query_str(t.term1), Wrapped(t.term1)} :
          ret.value = left \o <<" ">> \o t.op \o <<" ">> \o right

\* C22 as stated: a BinaryOp(AND) that is an operand of a BinaryOp(OR) is
\* rendered in parentheses, and a BinaryOp(OR) that is an operand of a
\* BinaryOp(AND) is not.
C22_AndInsideOrIsWrapped ==
    (ret.call = "str" /\ ret.args[1].kind = "BinaryOpQuery") =>
        LET t == ret.args[1]
        IN /\ (t.op = KW_OR /\ IsBinaryOp(t.term1, KW_AND)) => RenderedLeftAs(Wrapped(t.term1))
           /\ (t.op = KW_OR /\ IsBinaryOp(t.term2, KW_AND)) => RenderedRightAs(Wrapped(t.term2))
           /\ (t.op = KW_AND /\ IsBinaryOp(t.term1, KW_OR)) => RenderedLeftAs(Query_str(t.term1))
           /\ (t.op = KW_AND /\ IsBinaryOp(t.term2, KW_OR)) => RenderedRightAs(Query_str(t.term2))

\* C22, amended: a BinaryOp(OR) that is an operand of a BinaryOp(AND) is
\* rendered in parentheses, and a BinaryOp(AND) that is an operand of a
\* BinaryOp(OR) is not.
C22_OrInsideAndIsWrapped ==
    (ret.call = "str" /\ ret.args[1].kind = "BinaryOpQuery") =>
        LET t == ret.args[1]
        IN /\ (t.op = KW_AND /\ IsBinaryOp(t.term1, KW_OR)) => RenderedLeftAs(Wrapped(t.term1))
           /\ (t.op = KW_AND /\ IsBinaryOp(t.term2, KW_OR)) => RenderedRightAs(Wrapped(t.term2))
           /\ (t.op = KW_OR /\ IsBinaryOp(t.term1, KW_AND)) => RenderedLeftAs(Query_str(t.term1))
           /\ (t.op = KW_OR /\ IsBinaryOp(t.term2, KW_AND)) => RenderedRightAs(Query_str(t.term2))

\* AND(OR(range, range), value) has been rendered with the OR in parentheses.
C22_Witness ==
    /\ ret.call = "str"
    /\ IsBinaryOp(ret.args[1], KW_AND)
    /\ IsBinaryOp(ret.args[1].term1, KW_OR)
    /\ ret.args[1].term1.term1.kind = "FieldRangeQuery"
    /\ ret.args[1].term1.term2.kind = "FieldRangeQuery"
    /\ ret.args[1].term2.kind = "FieldValueQuery"
    /\ ret.value = <<"(", "f", ":", "[", "1", " ", "T", "O", " ", "N", "o", "n", "e", "]",
                     " ", "O", "R", " ",
                     "f", ":", "[", "1", " ", "T", "O", " ", "N", "o", "n", "e", "]", ")",
                     " ", "A", "N", "D", " ", "\"", "a", "*", "\"">>

\* The precedence the table gives a node of class `kind` with operator `op`
\* (<<>> for the classes that have no operator).
PrecedenceTable(kind, op) ==
    CASE kind = "PhraseQuery" -> 400
      [] kind = "BinaryOpQuery" /\ op = <<"O", "R">> -> 500
      [] kind = "BinaryOpQuery" /\ op = <<"A", "N", "D">> -> 600
      [] kind = "UnaryOpQuery" /\ op = <<"N", "O", "T">> -> 800
      [] kind = "UnaryOpQuery" /\ op \in {<<"+">>, <<"-">>} -> 900
      [] kind \in {"FieldValueQuery", "FieldWildcardQuery", "FieldRangeQuery"} -> 1000

\* The operator of a node, <<>> when its class has none.
OperatorOf(q) == IF q.kind \in {"BinaryOpQuery", "UnaryOpQuery"} THEN q.op ELSE <<>>

\* C26: op_precedence() is 400 for a PhraseQuery, 500 for OR and 600 for AND,
\* 800 for NOT and 900 for '+' and '-', 1000 for the three field classes: a
\* function of the node's class and operator alone, whatever its children.
C26_PrecedenceTable ==
    ret.call = "op_precedence" =>
        /\ ~ ret.raised
        /\ ret.value = PrecedenceTable(ret.args[1].kind, OperatorOf(ret.args[1]))

\* op_precedence() has returned 500 for an OR whose left operand is a NOT.
C26_Witness ==
    /\ ret.call = "op_precedence"
    /\ ret.args[1].kind = "BinaryOpQuery"
    /\ ret.args[1].op = <<"O", "R">>
    /\ ret.args[1].term1.kind = "UnaryOpQuery"
    /\ ret.args[1].term1.op = <<"N", "O", "T">>
    /\ ret.value = 500

\* C27: every BinaryOpQuery the constructors give has an operator in
\* {AND, OR} and every UnaryOpQuery an operator in {NOT, '+', '-'}: a
\* constructor called with any other operator text fails.
C27_OperatorsAreValid ==
    /\ \A q \in NodesOfAll(stack) :
          /\ q.kind = "BinaryOpQuery" => q.op \in {<<"A", "N", "D">>, <<"O", "R">>}
          /\ q.kind = "UnaryOpQuery" => q.op \in {<<"N", "O", "T">>, <<"+">>, <<"-">>}
    /\ (ret.call = "BinaryOpQuery" /\ ret.args[1] \notin {<<"A", "N", "D">>, <<"O", "R">>})
          => ret.raised
    /\ (ret.call = "UnaryOpQuery" /\ ret.args[1] \notin {<<"N", "O", "T">>, <<"+">>, <<"-">>})
          => ret.raised

\* C23: to_dict() returns a dictionary with exactly the keys 'attributes',
\* 'geo_locations', 'metadata', 'records' and 'times'; 'attributes' and
\* 'records' list what add_attributes and add_record have added, in order,
\* and all five are empty for a dataset just created.
C23_ToDictHasFiveKeys ==
    ret.call = "to_dict" =>
        /\ DOMAIN ret.value = {"attributes", "geo_locations", "metadata", "records", "times"}
        /\ ret.value.attributes = stack[1]._attributes
        /\ ret.value.records = stack[1]._records
        /\ (stack[1] = DbDataset_init) =>
              \A key \in DOMAIN ret.value : ret.value[key] = <<>>

\* The call made by this step is one of `calls`.
StepCalls(calls) == ret'.call \in calls

\* C24: a dataset just created has record_count 0 and no records; each
\* add_record puts its record after those already held and no other call
\* changes them, so records are the records added, in the order of the
\* calls; record_count is their number and records returns them.
C24_RecordsInInsertionOrder ==
    [][/\ StepCalls({"DbDataset"}) => stack'[1]._records = <<>>
       /\ StepCalls({"add_record"}) =>
             /\ Len(stack'[1]._records) = Len(stack[1]._records) + 1
             /\ \A i \in 1..Len(stack[1]._records) :
                   stack'[1]._records[i] = stack[1]._records[i]
             /\ stack'[1]._records[Len(stack'[1]._records)] = ret'.args[2]
       /\ ~ StepCalls({"DbDataset", "add_record"}) =>
             stack'[1]._records = stack[1]._records
       /\ StepCalls({"record_count"}) => ret'.value = Len(stack'[1]._records)
       /\ StepCalls({"records"}) => ret'.value = stack'[1]._records
      ]_vars

\* record_count has returned 2 after two different records were added, the
\* first of them first.
C24_Witness ==
    /\ ret.call = "record_count"
    /\ ret.value = 2
    /\ stack[1]._records = <<<<PyFloat(-384), PyFloat(1098)>>, <<PyFloat(-385), PyFloat(1099)>>>>
    /\ stack[1]._attributes # <<>>

\* C25: each add_attributes puts the names it is given, in their order, after
\* those already held, and no other call changes them, add_record included;
\* add_attributes changes no record. attribute_count is the number of names
\* held and attribute_names returns them.
C25_AttributesInCallOrder ==
    [][/\ StepCalls({"DbDataset"}) => stack'[1]._attributes = <<>>
       /\ StepCalls({"add_attributes"}) =>
             /\ Len(stack'[1]._attributes) = Len(stack[1]._attributes) + Len(ret'.args[2])
             /\ \A i \in 1..Len(stack[1]._attributes) :
                   stack'[1]._attributes[i] = stack[1]._attributes[i]
             /\ \A i \in 1..Len(ret'.args[2]) :
                   stack'[1]._attributes[Len(stack[1]._attributes) + i] = ret'.args[2][i]
             /\ stack'[1]._records = stack[1]._records
       /\ ~ StepCalls({"DbDataset", "add_attributes"}) =>
             stack'[1]._attributes = stack[1]._attributes
       /\ StepCalls({"attribute_count"}) => ret'.value = Len(stack'[1]._attributes)
       /\ StepCalls({"attribute_names"}) => ret'.value = stack'[1]._attributes
      ]_vars

\* attribute_names has returned three names given in two calls, with a
\* record added to the dataset as well.
C25_Witness ==
    /\ ret.call = "attribute_names"
    /\ ret.value = <<PyStr(<<"l", "o", "n">>), PyStr(<<"l", "a", "t">>), PyStr(<<"l", "a", "t">>)>>
    /\ stack[1]._records # <<>>

\* C21: str(t) returns a text and raises nothing for every tree, whatever the
\* scalar kind of its leaf values, None included; t1 == t2 returns True or
\* False and raises nothing for every pair of trees, of the same class or
\* not.
C21_RenderingAndEqualityAreTotal ==
    /\ ret.call = "str" => (~ ret.raised /\ ret.value \in Seq(STRING))
    /\ ret.call = "eq" => (~ ret.raised /\ ret.value \in BOOLEAN)

\* A PhraseQuery has been compared with a FieldValueQuery whose value is an
\* integer, and the answer is False.
C21_Witness ==
    /\ ret.call = "eq"
    /\ ret.args[1].kind = "PhraseQuery"
    /\ ret.args[2] = FieldValueQuery(NameF, PyInt(-1))
    /\ ret.value = FALSE

\* C28: trees that are equal have equal renderings and equal
\* representations, with leaf values compared as Python compares them
\* (1 == 1.0 == True).
C28_EqualTreesRenderEqual ==
    (ret.call = "eq" /\ ~ ret.raised /\ ret.value = TRUE) =>
        /\ Query_str(ret.args[1]) = Query_str(ret.args[2])
        /\ Query_repr(ret.args[1]) = Query_repr(ret.args[2])

\* The phrases a phrase is compared with.
OtherPhrases == {PhraseQuery(terms) : terms \in TuplesOver(ArgTerms, 2)}

\* C29: PhraseQuery(seq) holds the items seq had when it was called, and when
\* the caller afterwards appends to seq, removes from it or replaces one of
\* its items, the phrase keeps its terms, its rendering, its equality with
\* other phrases and the child results its visitor is given.
C29_PhraseTakesSnapshot ==
    [][/\ ret'.call = "PhraseQuery" /\ Len(stack) = 1 =>
             PhraseSeen(stack'[2]).terms = stack[1].items
       /\ (Len(stack) = 2 /\ stack'[1] # stack[1]) =>
             /\ PhraseSeen(stack'[2]).terms = PhraseSeen(stack[2]).terms
             /\ Query_str(PhraseSeen(stack'[2])) = Query_str(PhraseSeen(stack[2]))
             /\ \A other \in OtherPhrases :
                   /\ Query_eq(PhraseSeen(stack'[2]), other) = Query_eq(PhraseSeen(stack[2]), other)
                   /\ Query_eq(other, PhraseSeen(stack'[2])) = Query_eq(other, PhraseSeen(stack[2]))
             /\ Query_accept(PhraseSeen(stack'[2]), <<>>) = Query_accept(PhraseSeen(stack[2]), <<>>)
       /\ (Len(stack) = 2 /\ ret'.call \in {"str", "accept"}) =>
             ret'.args[1].terms = PhraseSeen(stack[2]).terms
      ]_vars

\* The phrase has been rendered after the list it was built from, then of
\* two items, was emptied: the rendering still shows both terms.
C29_Witness ==
    /\ Len(stack) = 2
    /\ stack[1].items = <<>>
    /\ ret.call = "str"
    /\ ret.args[1].terms = <<FieldValueQuery(PyNone, TextAStar),
                             FieldRangeQuery(NameF, PyInt(1), PyNone, FALSE)>>
    /\ ret.value = <<"\"", "a", "*", "\"", " ", "f", ":", "[", "1", " ", "T", "O", " ",
                     "N", "o", "n", "e", "]">>

====
